---- MODULE Spec2Model ----
(***************************************************************************)
(* Model of the shift scheduling core of ShiftGenius_AI:                   *)
(*   AISchedulingEngine (server/scheduling-engine.ts, src/unnamed/part_002)*)
(*   MemStorage          (server/storage.ts,          src/unnamed/part_001)*)
(*   ProductionScheduler (its validator,              src/unnamed/part_003)*)
(* Timestamps are absolute minutes: day * 1440 + minute of the day.  All   *)
(* durations the engine adds are whole minutes (integer timePerKg times    *)
(* integer totalQuantity), so a Date is exactly one such integer.          *)
(***************************************************************************)
EXTENDS Integers, Sequences, FiniteSets, TLC

VARIABLES
    store,        \* MemStorage: its maps, as sequences in insertion order
    today,        \* the day on which `new Date()` is evaluated
    pc,           \* position of generateOptimalSchedule
    date,         \* its argument: the target day
    eng,          \* AISchedulingEngine fields: employees, productionAreas, processSteps
    loc,          \* its locals: orders, availableEmployees, sortedOrders, tasks, issues, ...
    result,       \* what the call returned (outcome "returned") or that it rejected ("threw")
    runs,         \* number of calls started so far
    vIn,          \* validators on their own: the assignment list handed to them
    vOut          \* validators on their own: the issue lists they returned

vars == <<store, today, pc, date, eng, loc, result, runs, vIn, vOut>>

-----------------------------------------------------------------------------
(* Bounds of the model *)

MaxOrders == 2      \* orders stored for the production day
MaxWorkers == 2     \* employees stored
MaxRuns == 2        \* calls of generateOptimalSchedule in one behaviour
MaxVTasks == 3      \* assignments handed to the validators on their own
MaxVTime == 3       \* time points of those assignments
MaxVPair == 2       \* assignments of the short lists validated twice
MaxMatchPool == 3   \* employees handed to the matcher on its own

(* Program constants *)

MinutesPerDay == 24 * 60
PrepStartHour == 6
FillEndHour == 17

Days == {1, 2}
OrderDay == 1       \* every stored order is scheduled for this day

-----------------------------------------------------------------------------
(* Small helpers on sequences *)

Reverse(s) == [i \in 1..Len(s) |-> s[Len(s) + 1 - i]]

Range(s) == {s[i] : i \in 1..Len(s)}

RECURSIVE SumSeq(_)
SumSeq(s) == IF s = <<>> THEN 0 ELSE Head(s) + SumSeq(Tail(s))

RECURSIVE Flatten(_)
Flatten(ss) == IF ss = <<>> THEN <<>> ELSE Head(ss) \o Flatten(Tail(ss))

\* Array.prototype.sort with comparator (a, b) => key(a) - key(b): a stable
\* ascending sort.  Works on <<key, element>> pairs: a pair is inserted after
\* every pair whose key is <= its key.
RECURSIVE InsertPair(_, _)
InsertPair(x, s) ==
    IF s = <<>> THEN <<x>>
    ELSE IF Head(s)[1] <= x[1] THEN <<Head(s)>> \o InsertPair(x, Tail(s))
         ELSE <<x>> \o s

RECURSIVE SortPairs(_)
SortPairs(s) ==
    IF s = <<>> THEN <<>>
    ELSE InsertPair(s[Len(s)], SortPairs(SubSeq(s, 1, Len(s) - 1)))

\* s sorted by keys (keys[i] is the key of s[i]); equal keys keep their order
StableSortByKey(s, keys) ==
    LET sorted == SortPairs([i \in 1..Len(s) |-> <<keys[i], s[i]>>])
    IN  [i \in 1..Len(s) |-> sorted[i][2]]

sortBySequence(steps) ==
    StableSortByKey(steps, [i \in 1..Len(steps) |-> steps[i].sequence])

\* All subsequences of s (elements kept in order) of length at most n
RECURSIVE SubSeqsUpTo(_, _)
SubSeqsUpTo(s, n) ==
    IF s = <<>> \/ n = 0 THEN {<<>>}
    ELSE SubSeqsUpTo(Tail(s), n)
         \cup {<<Head(s)>> \o t : t \in SubSeqsUpTo(Tail(s), n - 1)}

-----------------------------------------------------------------------------
(* The stored data.  An "HH:MM" string is the pair <<HH, MM>>. *)

NullId == "<null>"      \* a null productionAreaId

\* MemStorage.initializeData: the three seeded production areas
SeedAreas ==
    << [id |-> "prep-1",    name |-> "Preparation Room 1", type |-> "preparation",
        startTime |-> <<6, 0>>, endTime |-> <<0, 0>>],
       [id |-> "prep-2",    name |-> "Preparation Room 2", type |-> "preparation",
        startTime |-> <<6, 0>>, endTime |-> <<0, 0>>],
       [id |-> "filling-1", name |-> "Filling Room",       type |-> "filling",
        startTime |-> <<0, 0>>, endTime |-> <<17, 0>>] >>

\* Process-step templates (shape of MemStorage.initializeData's processSteps)
SeedSteps ==
    << [id |-> "step-1", name |-> "Vegetable Peeling", requiredSkills |-> <<"peeling">>,
        timePerKg |-> 2, requiredEmployees |-> 1, productionAreaId |-> "prep-1"],
       [id |-> "step-2", name |-> "Cutting & Washing",
        requiredSkills |-> <<"peeling", "cutting">>,
        timePerKg |-> 3, requiredEmployees |-> 2, productionAreaId |-> "prep-1"],
       [id |-> "step-4", name |-> "Package Assembly", requiredSkills |-> <<"packaging">>,
        timePerKg |-> 3, requiredEmployees |-> 2, productionAreaId |-> "filling-1"],
       [id |-> "step-5", name |-> "Final Packaging", requiredSkills |-> <<"packaging">>,
        timePerKg |-> 4, requiredEmployees |-> 1, productionAreaId |-> "filling-1"] >>

Worker(id, name, skills, from, to, maxHours, avail) ==
    [id |-> id, name |-> name, skills |-> skills,
     workingTimeModel |-> [startTime |-> from, endTime |-> to, maxHours |-> maxHours],
     isAvailable |-> avail]

\* The employees a store may hold (any sub-list of at most MaxWorkers of them)
WorkerRoster ==
    << Worker("emp-1", "Maria", {"peeling", "cutting", "packaging"}, <<6, 0>>, <<14, 0>>, 8, TRUE),
       Worker("emp-2", "John",  {"peeling", "cutting"},              <<7, 0>>, <<15, 0>>, 8, TRUE),
       Worker("emp-3", "Anna",  {"peeling", "packaging"},            <<3, 0>>, <<17, 0>>, 3, TRUE),
       Worker("emp-4", "Peter", {"peeling", "cutting", "packaging"}, <<6, 0>>, <<17, 0>>, 8, FALSE) >>

Order(id, name, qty, prio) ==
    [id |-> id, productName |-> name, totalQuantity |-> qty, priority |-> prio,
     scheduledDate |-> OrderDay * MinutesPerDay]

\* An order as created, with the processStepId list of its order steps
\* (sequence = position in the list).  "step-9" is no stored template.
OrderCatalog ==
    << [order |-> Order("ord-1", "Salad", 100, "high"),   steps |-> <<"step-1">>],
       [order |-> Order("ord-2", "Soup",  100, "medium"), steps |-> <<"step-4">>],
       [order |-> Order("ord-3", "Juice", 200, "low"),    steps |-> <<"step-1", "step-5">>],
       [order |-> Order("ord-4", "Stew",  50,  "medium"),
        steps |-> <<"step-2", "step-1", "step-5", "step-4">>],
       [order |-> Order("ord-5", "Puree", 100, "low"),    steps |-> <<"step-1", "step-9">>] >>

\* MemStorage.createOrderProcessStep: one stored order step
OrderStepRow(c, i) ==
    [id |-> c.order.id \o "/" \o ToString(i), orderId |-> c.order.id,
     processStepId |-> c.steps[i], sequence |-> i]

RECURSIVE OrderStepRows(_)
OrderStepRows(cs) ==
    IF cs = <<>> THEN <<>>
    ELSE [i \in 1..Len(Head(cs).steps) |-> OrderStepRow(Head(cs), i)]
         \o OrderStepRows(Tail(cs))

\* A store holding the seeded areas and templates, the employees ws and the
\* catalogue entries cs, and no shift assignment yet
StoreOf(ws, cs) ==
    [employees |-> ws,
     productionAreas |-> SeedAreas,
     processSteps |-> SeedSteps,
     productionOrders |-> [i \in 1..Len(cs) |-> cs[i].order],
     orderProcessSteps |-> OrderStepRows(cs),
     shiftAssignments |-> <<>>]

InitialStores ==
    {StoreOf(ws, cs) : ws \in SubSeqsUpTo(WorkerRoster, MaxWorkers) \ {<<>>},
                       cs \in SubSeqsUpTo(OrderCatalog, MaxOrders) \ {<<>>}}

\* Rows MemStorage takes besides the seeded ones.  createProductionArea and
\* createProcessStep give a row a randomUUID() id: hexadecimal digits and
\* dashes, so the id holds neither 'prep' nor 'filling'.  An order row keeps
\* the totalQuantity it was posted with; the insert schema takes any integer.
CreatedAreas ==
    << [id |-> "0c7e52a1", name |-> "Preparation Room 3", type |-> "preparation",
        startTime |-> <<6, 0>>, endTime |-> <<0, 0>>] >>

CreatedSteps ==
    << [id |-> "5d2b90f4", name |-> "Blanching", requiredSkills |-> <<"peeling">>,
        timePerKg |-> 2, requiredEmployees |-> 1, productionAreaId |-> "0c7e52a1"] >>

AcceptedCatalog ==
    << OrderCatalog[1],
       OrderCatalog[2],
       OrderCatalog[3],
       [order |-> Order("ord-6", "Broth", 0, "medium"),  steps |-> <<"step-1", "step-5">>],
       [order |-> Order("ord-7", "Mash",  100, "medium"), steps |-> <<"5d2b90f4", "step-1">>],
       [order |-> Order("ord-8", "Dip",   20, "high"),    steps |-> <<"step-1", "step-5">>],
       [order |-> Order("ord-9", "Pesto", 30, "low"),
        steps |-> <<"step-1", "step-4", "step-5">>] >>

\* a store that also holds the created area and template
AcceptedStoreOf(ws, cs) ==
    [StoreOf(ws, cs) EXCEPT !.productionAreas = @ \o CreatedAreas,
                            !.processSteps = @ \o CreatedSteps]

AcceptedStores ==
    {AcceptedStoreOf(ws, cs) : ws \in SubSeqsUpTo(WorkerRoster, MaxWorkers) \ {<<>>},
                               cs \in SubSeqsUpTo(AcceptedCatalog, MaxOrders) \ {<<>>}}

-----------------------------------------------------------------------------
(* MemStorage reads *)

DayOf(t) == t \div MinutesPerDay          \* Date.toDateString(): the calendar day

getEmployees(st) == st.employees
getProductionAreas(st) == st.productionAreas
getProcessSteps(st) == st.processSteps

\* what Map.get returns for a key the map does not hold
Undefined ==
    [id |-> "undefined", name |-> "undefined", requiredSkills |-> <<>>,
     timePerKg |-> 0, requiredEmployees |-> 0, productionAreaId |-> "undefined"]

\* this.processSteps.get(id)
getProcessStep(st, id) ==
    IF \E i \in 1..Len(st.processSteps) : st.processSteps[i].id = id
    THEN st.processSteps[CHOOSE i \in 1..Len(st.processSteps) : st.processSteps[i].id = id]
    ELSE Undefined

getProductionOrders(st, d) ==
    SelectSeq(st.productionOrders, LAMBDA o : DayOf(o.scheduledDate) = d)

OrderStepWithDetails(st, orderStep) ==
    [id |-> orderStep.id, orderId |-> orderStep.orderId,
     processStepId |-> orderStep.processStepId, sequence |-> orderStep.sequence,
     processStep |-> getProcessStep(st, orderStep.processStepId)]

OrderWithDetails(order, processSteps) ==
    [id |-> order.id, productName |-> order.productName,
     totalQuantity |-> order.totalQuantity, priority |-> order.priority,
     scheduledDate |-> order.scheduledDate,
     processSteps |-> sortBySequence(processSteps)]

\* the order steps pushed without the `if (processStep)` test
OrderDetails_NoTemplateTest(st, order) ==
    LET orderSteps == SelectSeq(st.orderProcessSteps, LAMBDA s : s.orderId = order.id)
    IN  OrderWithDetails(order,
            [i \in 1..Len(orderSteps) |-> OrderStepWithDetails(st, orderSteps[i])])

\* body of the loop of getProductionOrdersWithDetails: the order with its order
\* steps whose template is stored (`if (processStep)`), sorted by sequence
OrderDetails(st, order) ==
    LET orderSteps == SelectSeq(st.orderProcessSteps, LAMBDA s : s.orderId = order.id)
        withStep == [i \in 1..Len(orderSteps) |-> OrderStepWithDetails(st, orderSteps[i])]
    IN  OrderWithDetails(order, SelectSeq(withStep, LAMBDA s : s.processStep # Undefined))

getProductionOrdersWithDetails(st, d) ==
    LET orders == getProductionOrders(st, d)
    IN  [i \in 1..Len(orders) |-> OrderDetails(st, orders[i])]

getShiftAssignments(st, d) ==
    SelectSeq(st.shiftAssignments, LAMBDA a : DayOf(a.startTime) = d)

\* createShiftAssignment: the row is added to the map under a fresh id
createShiftAssignment(assignments, a) ==
    Append(assignments, [employeeId |-> a.employeeId,
                         orderProcessStepId |-> a.orderProcessStepId,
                         startTime |-> a.startTime, endTime |-> a.endTime,
                         status |-> a.status])

-----------------------------------------------------------------------------
(* AISchedulingEngine: helpers *)

\* String.prototype.includes on a productionAreaId (null?.includes is falsy)
IncludesPrep(areaId) == areaId \in {"prep-1", "prep-2"}
IncludesFilling(areaId) == areaId \in {"filling-1"}

\* createDateTime(baseDate, hours, minutes): that clock time on baseDate's day
createDateTime(baseDay, hours, minutes) == baseDay * MinutesPerDay + hours * 60 + minutes

\* parseTimeString("HH:MM") = hours + minutes / 60, kept here in minutes
parseTimeString(timeStr) == timeStr[1] * 60 + timeStr[2]

\* taskTime.getHours() + taskTime.getMinutes() / 60, kept here in minutes
HourOfDay(t) == t % MinutesPerDay

\* issue strings, as records of the values they are built from
Issue(kind, step, product, need, found, who, detail) ==
    [kind |-> kind, step |-> step, product |-> product, need |-> need,
     found |-> found, who |-> who, detail |-> detail]

StaffIssue(processStep, order, found) ==
    Issue("Insufficient skilled staff", processStep.name, order.productName,
          processStep.requiredEmployees, found, "", "")

DependencyIssue(processStep, order, reason) ==
    Issue("Dependency not met", processStep.name, order.productName, 0, 0, "", reason)

OverlapIssue(employee) ==
    Issue("has overlapping assignments", "", "", 0, 0, employee.name, "")

\* Hours are JavaScript numbers (IEEE-754 doubles): a duration in hours is
\* milliseconds / 3600000, rounded to the nearest double, and each step of a
\* sum is rounded again.  A double that stands for a whole number of minutes
\* is kept as [m, r]: it is the number m / 60 + r / (60 * 2^58), r being the
\* rounding error carried so far.  Doubles from 2^(k-6) up to 2^(k-5) are the
\* multiples of 2^(k-58), that is of 60 * 2^k of the units of r.
Pow2(n) == 2 ^ n

MaxBinade == 12

\* k with 2^(k-6) <= m / 60 < 2^(k-5), for every m the model can sum up
BinadeOfMinutes ==
    [m \in 1..(2 ^ MaxBinade) |->
        CHOOSE j \in 0..MaxBinade : 60 * Pow2(j) <= 64 * m /\ 64 * m < 120 * Pow2(j)]

\* k with 2^(k-6) <= m / 60 + r / (60 * 2^58) < 2^(k-5), for m >= 1
BinadeOf(m, r) ==
    IF 64 * m = 60 * Pow2(BinadeOfMinutes[m]) /\ r < 0
    THEN BinadeOfMinutes[m] - 1 ELSE BinadeOfMinutes[m]

\* 2^j modulo 60 (j >= 2) and modulo 120 (j >= 3)
TwoToThe_Mod60(j) == CASE j % 4 = 2 -> 4 [] j % 4 = 3 -> 8 [] j % 4 = 0 -> 16 [] OTHER -> 32
TwoToThe_Mod120(j) == CASE j % 4 = 3 -> 8 [] j % 4 = 0 -> 16 [] j % 4 = 1 -> 32 [] OTHER -> 64

\* the double nearest to m / 60 + r / (60 * 2^58), ties to the even mantissa
RoundToDouble(m, r) ==
    IF m = 0 THEN [m |-> 0, r |-> 0]
    ELSE
    LET k == BinadeOf(m, r)
        grid == 60 * Pow2(k)
        \* how far the number lies above a double, in units of r
        above == (Pow2(k) * ((m * TwoToThe_Mod60(58 - k)) % 60) + r) % grid
        down == r - above
        downIsEven ==
            (Pow2(k) * ((m * TwoToThe_Mod120(58 - k)) % 120) + down) % (2 * grid) = 0
    IN  [m |-> m,
         r |-> IF above = 0 THEN r
               ELSE IF 2 * above < grid THEN down
               ELSE IF 2 * above > grid THEN down + grid
               ELSE IF downIsEven THEN down ELSE down + grid]

\* (endTime.getTime() - startTime.getTime()) / (1000 * 60 * 60)
HoursOfMinutes(minutes) == RoundToDouble(minutes, 0)

\* sum + hours
AddHours(sum, hours) == RoundToDouble(sum.m + hours.m, sum.r + hours.r)

\* totalHours > maxHours, maxHours a whole number of hours
HoursGreater(hours, maxHours) ==
    hours.m > 60 * maxHours \/ (hours.m = 60 * maxHours /\ hours.r > 0)

\* totalHours.toFixed(1), in tenths of an hour: the nearest tenth, the larger
\* one when two are equally near
ToFixed1(hours) ==
    IF hours.m % 6 > 3 \/ (hours.m % 6 = 3 /\ hours.r >= 0)
    THEN hours.m \div 6 + 1 ELSE hours.m \div 6

MaxHoursIssue(employee, totalHours) ==
    Issue("exceeds maximum working hours", "", "",
          employee.workingTimeModel.maxHours, ToFixed1(totalHours), employee.name, "")

FailureIssue(message) ==
    Issue("Scheduling failed", "", "", 0, 0, "", message)

\* processSteps.find(ps => ps.id === id)
FindStep(processSteps, id) ==
    IF \E i \in 1..Len(processSteps) : processSteps[i].id = id
    THEN <<processSteps[CHOOSE i \in 1..Len(processSteps) :
                            /\ processSteps[i].id = id
                            /\ \A j \in 1..(i - 1) : processSteps[j].id # id]>>
    ELSE <<>>

\* step.processStep.productionAreaId on an order step whose processStep is
\* undefined: the filter callbacks of get...StepsForOrder throw a TypeError
readsUndefined(orders) ==
    \E k \in 1..Len(orders) : \E i \in 1..Len(orders[k].processSteps) :
        orders[k].processSteps[i].processStep = Undefined

\* the comparator of the priority sequencer: high before medium before low,
\* then the smaller quantity
sortOrdersByQuantity_PriorityFirst(orders) ==
    StableSortByKey(orders,
        [i \in 1..Len(orders) |->
            (CASE orders[i].priority = "high" -> 0
               [] orders[i].priority = "medium" -> 1
               [] OTHER -> 2) * 100000 + orders[i].totalQuantity])

sortOrdersByQuantity(orders) ==
    StableSortByKey(orders, [i \in 1..Len(orders) |-> orders[i].totalQuantity])

getPreparationStepsForOrder(order) ==
    sortBySequence(
        SelectSeq(order.processSteps, LAMBDA s : IncludesPrep(s.processStep.productionAreaId)))

getFillingStepsForOrder(order) ==
    sortBySequence(
        SelectSeq(order.processSteps, LAMBDA s : IncludesFilling(s.processStep.productionAreaId)))

-----------------------------------------------------------------------------
(* AISchedulingEngine.findSuitableEmployees and checkDependencies *)

hasRequiredSkills(employee, processStep) ==
    \A k \in 1..Len(processStep.requiredSkills) :
        processStep.requiredSkills[k] \in employee.skills

\* the window closed at its start only
withinWorkingTime_EndExcluded(employee, taskTime) ==
    LET taskHour == HourOfDay(taskTime)
        workStart == parseTimeString(employee.workingTimeModel.startTime)
        workEnd == parseTimeString(employee.workingTimeModel.endTime)
    IN  ~(taskHour < workStart \/ taskHour >= workEnd)

withinWorkingTime(employee, taskTime) ==
    LET taskHour == HourOfDay(taskTime)
        workStart == parseTimeString(employee.workingTimeModel.startTime)
        workEnd == parseTimeString(employee.workingTimeModel.endTime)
    IN  ~(taskHour < workStart \/ taskHour > workEnd)

\* the probe interval of the conflict test ends timePerKg minutes after taskTime
conflictsWith(task, taskTime, processStep) ==
    \/ (taskTime >= task.startTime /\ taskTime < task.endTime)
    \/ (taskTime < task.startTime /\ taskTime + processStep.timePerKg > task.startTime)

hasConflict(employee, taskTime, processStep, existingTasks) ==
    \E i \in 1..Len(existingTasks) :
        /\ existingTasks[i].employeeId = employee.id
        /\ conflictsWith(existingTasks[i], taskTime, processStep)

findSuitableEmployees(processStep, taskTime, allEmployees, existingTasks) ==
    SelectSeq(allEmployees, LAMBDA employee :
        /\ hasRequiredSkills(employee, processStep)
        /\ withinWorkingTime(employee, taskTime)
        /\ ~hasConflict(employee, taskTime, processStep, existingTasks))

\* the gate left open: every step reported as met
checkDependencies_AlwaysMet(orderId, processStep, existingTasks) ==
    [met |-> TRUE, reason |-> ""]

\* the gate opened by a preparation task of any order
checkDependencies_AnyOrder(orderId, processStep, existingTasks) ==
    IF /\ IncludesFilling(processStep.productionAreaId)
       /\ ~\E i \in 1..Len(existingTasks) :
              IncludesPrep(existingTasks[i].productionAreaId)
    THEN [met |-> FALSE, reason |-> "Preparation steps must be completed before filling"]
    ELSE [met |-> TRUE, reason |-> ""]

checkDependencies(orderId, processStep, existingTasks) ==
    IF /\ IncludesFilling(processStep.productionAreaId)
       /\ ~\E i \in 1..Len(existingTasks) :
              /\ existingTasks[i].orderId = orderId
              /\ IncludesPrep(existingTasks[i].productionAreaId)
    THEN [met |-> FALSE, reason |-> "Preparation steps must be completed before filling"]
    ELSE [met |-> TRUE, reason |-> ""]

-----------------------------------------------------------------------------
(* The two placement passes.  A pass walks its (order, order step) pairs in   *)
(* loop order, carrying its tasks, its issues and its clock.                   *)

ScheduledTask(order, orderStep, processStep, employee, startTime, endTime, durationMinutes) ==
    [orderId |-> order.id, orderProcessStepId |-> orderStep.id,
     processStepId |-> processStep.id, employeeId |-> employee.id,
     startTime |-> startTime, endTime |-> endTime,
     estimatedDuration |-> durationMinutes,
     productionAreaId |-> IF processStep.productionAreaId = NullId
                          THEN "" ELSE processStep.productionAreaId]

\* the quantity left out of the product
durationMinutesOf_PerKgOnly(processStep, order) == processStep.timePerKg

durationMinutesOf(processStep, order) == processStep.timePerKg * order.totalQuantity

\* the required number of employees taken from the end of the list
assignEmployees_FromTheEnd(order, orderStep, processStep, suitableEmployees, startTime, endTime) ==
    LET n == IF processStep.requiredEmployees < Len(suitableEmployees)
             THEN processStep.requiredEmployees ELSE Len(suitableEmployees)
    IN  [i \in 1..(IF n < 0 THEN 0 ELSE n) |->
            ScheduledTask(order, orderStep, processStep,
                          suitableEmployees[Len(suitableEmployees) - n + i],
                          startTime, endTime, durationMinutesOf(processStep, order))]

\* one task for every employee the matcher returned
assignEmployees_AllSuitable(order, orderStep, processStep, suitableEmployees, startTime, endTime) ==
    [i \in 1..Len(suitableEmployees) |->
        ScheduledTask(order, orderStep, processStep, suitableEmployees[i],
                      startTime, endTime, durationMinutesOf(processStep, order))]

\* for (i = 0; i < requiredEmployees && i < suitableEmployees.length; i++) tasks.push(...)
assignEmployees(order, orderStep, processStep, suitableEmployees, startTime, endTime) ==
    LET n == IF processStep.requiredEmployees < Len(suitableEmployees)
             THEN processStep.requiredEmployees ELSE Len(suitableEmployees)
    IN  [i \in 1..(IF n < 0 THEN 0 ELSE n) |->
            ScheduledTask(order, orderStep, processStep, suitableEmployees[i],
                          startTime, endTime, durationMinutesOf(processStep, order))]

\* the (order, order step) pairs of the nested loops of a pass, in loop order
\* (steps[k] are the steps taken from orders[k])
Pairs(orders, steps) ==
    Flatten([k \in 1..Len(orders) |->
                [i \in 1..Len(steps[k]) |->
                    [order |-> orders[k], orderStep |-> steps[k][i]]]])

preparationPairs(orders) ==
    Pairs(orders, [k \in 1..Len(orders) |-> getPreparationStepsForOrder(orders[k])])

fillingPairs(orders) ==
    LET reversedOrders == Reverse(orders)
    IN  Pairs(reversedOrders,
              [k \in 1..Len(reversedOrders) |->
                  Reverse(getFillingStepsForOrder(reversedOrders[k]))])

\* an iteration that moves the clock past a step it could not staff
preparationIteration_ClockMovesOnSkip(acc, pair, processSteps, availableEmployees) ==
    LET order == pair.order
        orderStep == pair.orderStep
        found == FindStep(processSteps, orderStep.processStepId)
    IN  IF found = <<>> THEN acc
        ELSE
        LET processStep == found[1]
            suitableEmployees ==
                findSuitableEmployees(processStep, acc.currentTime, availableEmployees, acc.tasks)
            endTime == acc.currentTime + durationMinutesOf(processStep, order)
        IN  IF Len(suitableEmployees) < processStep.requiredEmployees
            THEN [tasks |-> acc.tasks,
                  issues |-> Append(acc.issues,
                                    StaffIssue(processStep, order, Len(suitableEmployees))),
                  currentTime |-> endTime]
            ELSE [tasks |-> acc.tasks \o assignEmployees(order, orderStep, processStep,
                                             suitableEmployees, acc.currentTime, endTime),
                  issues |-> acc.issues,
                  currentTime |-> endTime]

\* an iteration that skips an understaffed step without recording an issue
preparationIteration_SkipNotRecorded(acc, pair, processSteps, availableEmployees) ==
    LET order == pair.order
        orderStep == pair.orderStep
        found == FindStep(processSteps, orderStep.processStepId)
    IN  IF found = <<>> THEN acc
        ELSE
        LET processStep == found[1]
            suitableEmployees ==
                findSuitableEmployees(processStep, acc.currentTime, availableEmployees, acc.tasks)
            endTime == acc.currentTime + durationMinutesOf(processStep, order)
        IN  IF Len(suitableEmployees) < processStep.requiredEmployees
            THEN acc
            ELSE [tasks |-> acc.tasks \o assignEmployees(order, orderStep, processStep,
                                             suitableEmployees, acc.currentTime, endTime),
                  issues |-> acc.issues,
                  currentTime |-> endTime]

\* one iteration of the inner loop of schedulePreparationRooms
\* an iteration that leaves the clock where it was after placing a step
preparationIteration_ClockNotAdvanced(acc, pair, processSteps, availableEmployees) ==
    LET order == pair.order
        orderStep == pair.orderStep
        found == FindStep(processSteps, orderStep.processStepId)
    IN  IF found = <<>> THEN acc
        ELSE
        LET processStep == found[1]
            suitableEmployees ==
                findSuitableEmployees(processStep, acc.currentTime, availableEmployees, acc.tasks)
            durationMinutes == durationMinutesOf(processStep, order)
            endTime == acc.currentTime + durationMinutes
        IN  IF Len(suitableEmployees) < processStep.requiredEmployees
            THEN [acc EXCEPT !.issues =
                     Append(@, StaffIssue(processStep, order, Len(suitableEmployees)))]
            ELSE [tasks |-> acc.tasks \o assignEmployees(order, orderStep, processStep,
                                             suitableEmployees, acc.currentTime, endTime),
                  issues |-> acc.issues,
                  currentTime |-> acc.currentTime]

preparationIteration(acc, pair, processSteps, availableEmployees) ==
    LET order == pair.order
        orderStep == pair.orderStep
        found == FindStep(processSteps, orderStep.processStepId)
    IN  IF found = <<>> THEN acc
        ELSE
        LET processStep == found[1]
            suitableEmployees ==
                findSuitableEmployees(processStep, acc.currentTime, availableEmployees, acc.tasks)
            durationMinutes == durationMinutesOf(processStep, order)
            endTime == acc.currentTime + durationMinutes
        IN  IF Len(suitableEmployees) < processStep.requiredEmployees
            THEN [acc EXCEPT !.issues =
                     Append(@, StaffIssue(processStep, order, Len(suitableEmployees)))]
            ELSE [tasks |-> acc.tasks \o assignEmployees(order, orderStep, processStep,
                                             suitableEmployees, acc.currentTime, endTime),
                  issues |-> acc.issues,
                  currentTime |-> endTime]

\* a pass that gives up at the first step it cannot place
RECURSIVE preparationLoop_StopsAtSkip(_, _, _, _)
preparationLoop_StopsAtSkip(acc, pairs, processSteps, availableEmployees) ==
    IF pairs = <<>> THEN acc
    ELSE LET next == preparationIteration(acc, Head(pairs), processSteps, availableEmployees)
         IN  IF Len(next.issues) > Len(acc.issues) THEN next
             ELSE preparationLoop_StopsAtSkip(next, Tail(pairs), processSteps,
                                              availableEmployees)

RECURSIVE preparationLoop(_, _, _, _)
preparationLoop(acc, pairs, processSteps, availableEmployees) ==
    IF pairs = <<>> THEN acc
    ELSE preparationLoop(
             preparationIteration(acc, Head(pairs), processSteps, availableEmployees),
             Tail(pairs), processSteps, availableEmployees)

\* schedulePreparationRooms: forward from 06:00 of the day of `new Date()`
schedulePreparationRooms(orders, availableEmployees, processSteps, nowDay) ==
    preparationLoop(
        [tasks |-> <<>>, issues |-> <<>>,
         currentTime |-> createDateTime(nowDay, PrepStartHour, 0)],
        preparationPairs(orders),
        processSteps, availableEmployees)

\* an iteration that moves the clock back over a step it could not staff
fillingIteration_ClockMovesOnSkip(acc, pair, processSteps, availableEmployees, preparationTasks) ==
    LET order == pair.order
        orderStep == pair.orderStep
        found == FindStep(processSteps, orderStep.processStepId)
    IN  IF found = <<>> THEN acc
        ELSE
        LET processStep == found[1]
            dependencyMet == checkDependencies(order.id, processStep, preparationTasks)
            startTime == acc.currentTime - durationMinutesOf(processStep, order)
            suitableEmployees ==
                findSuitableEmployees(processStep, startTime, availableEmployees,
                                      acc.tasks \o preparationTasks)
        IN  IF ~dependencyMet.met
            THEN [acc EXCEPT !.issues =
                     Append(@, DependencyIssue(processStep, order, dependencyMet.reason))]
            ELSE IF Len(suitableEmployees) < processStep.requiredEmployees
            THEN [tasks |-> acc.tasks,
                  issues |-> Append(acc.issues,
                                    StaffIssue(processStep, order, Len(suitableEmployees))),
                  currentTime |-> startTime]
            ELSE [tasks |-> acc.tasks \o assignEmployees(order, orderStep, processStep,
                                             suitableEmployees, startTime, acc.currentTime),
                  issues |-> acc.issues,
                  currentTime |-> startTime]

\* an iteration that moves the clock back over a step whose dependency is unmet
fillingIteration_ClockMovesOnUnmetDependency(acc, pair, processSteps, availableEmployees, preparationTasks) ==
    LET order == pair.order
        orderStep == pair.orderStep
        found == FindStep(processSteps, orderStep.processStepId)
    IN  IF found = <<>> THEN acc
        ELSE
        LET processStep == found[1]
            dependencyMet == checkDependencies(order.id, processStep, preparationTasks)
            startTime == acc.currentTime - durationMinutesOf(processStep, order)
            suitableEmployees ==
                findSuitableEmployees(processStep, startTime, availableEmployees,
                                      acc.tasks \o preparationTasks)
        IN  IF ~dependencyMet.met
            THEN [tasks |-> acc.tasks,
                  issues |-> Append(acc.issues,
                                    DependencyIssue(processStep, order, dependencyMet.reason)),
                  currentTime |-> startTime]
            ELSE IF Len(suitableEmployees) < processStep.requiredEmployees
            THEN [acc EXCEPT !.issues =
                     Append(@, StaffIssue(processStep, order, Len(suitableEmployees)))]
            ELSE [tasks |-> acc.tasks \o assignEmployees(order, orderStep, processStep,
                                             suitableEmployees, startTime, acc.currentTime),
                  issues |-> acc.issues,
                  currentTime |-> startTime]

\* one iteration of the inner loop of scheduleFillingRoom
fillingIteration(acc, pair, processSteps, availableEmployees, preparationTasks) ==
    LET order == pair.order
        orderStep == pair.orderStep
        found == FindStep(processSteps, orderStep.processStepId)
    IN  IF found = <<>> THEN acc
        ELSE
        LET processStep == found[1]
            dependencyMet == checkDependencies(order.id, processStep, preparationTasks)
            durationMinutes == durationMinutesOf(processStep, order)
            startTime == acc.currentTime - durationMinutes
            suitableEmployees ==
                findSuitableEmployees(processStep, startTime, availableEmployees,
                                      acc.tasks \o preparationTasks)
        IN  IF ~dependencyMet.met
            THEN [acc EXCEPT !.issues =
                     Append(@, DependencyIssue(processStep, order, dependencyMet.reason))]
            ELSE IF Len(suitableEmployees) < processStep.requiredEmployees
            THEN [acc EXCEPT !.issues =
                     Append(@, StaffIssue(processStep, order, Len(suitableEmployees)))]
            ELSE [tasks |-> acc.tasks \o assignEmployees(order, orderStep, processStep,
                                             suitableEmployees, startTime, acc.currentTime),
                  issues |-> acc.issues,
                  currentTime |-> startTime]

RECURSIVE fillingLoop(_, _, _, _, _)
fillingLoop(acc, pairs, processSteps, availableEmployees, preparationTasks) ==
    IF pairs = <<>> THEN acc
    ELSE fillingLoop(
             fillingIteration(acc, Head(pairs), processSteps, availableEmployees,
                              preparationTasks),
             Tail(pairs), processSteps, availableEmployees, preparationTasks)

\* scheduleFillingRoom: backward from 17:00 of the day of `new Date()`
scheduleFillingRoom(orders, availableEmployees, preparationTasks, processSteps, nowDay) ==
    fillingLoop(
        [tasks |-> <<>>, issues |-> <<>>,
         currentTime |-> createDateTime(nowDay, FillEndHour, 0)],
        fillingPairs(orders),
        processSteps, availableEmployees, preparationTasks)

-----------------------------------------------------------------------------
(* validateSchedule *)

\* keys of the Map built by the grouping loop: employee ids in order of first use
RECURSIVE FirstUses(_, _)
FirstUses(tasks, seen) ==
    IF tasks = <<>> THEN <<>>
    ELSE IF Head(tasks).employeeId \in seen THEN FirstUses(Tail(tasks), seen)
         ELSE <<Head(tasks).employeeId>>
              \o FirstUses(Tail(tasks), seen \cup {Head(tasks).employeeId})

tasksOfEmployee(tasks, employeeId) ==
    SelectSeq(tasks, LAMBDA task : task.employeeId = employeeId)

sortByStart(empTasks) ==
    StableSortByKey(empTasks, [i \in 1..Len(empTasks) |-> empTasks[i].startTime])

\* the overlap test with the list left in insertion order
overlapCount_Unsorted(empTasks) ==
    Cardinality({i \in 2..Len(empTasks) :
                    empTasks[i].startTime < empTasks[i - 1].endTime})

\* sort by start time, then one issue per adjacent pair of the sorted list
\* whose second element starts before the first one ends
overlapCount(empTasks) ==
    LET sortedTasks == sortByStart(empTasks)
    IN  Cardinality({i \in 2..Len(sortedTasks) :
                        sortedTasks[i].startTime < sortedTasks[i - 1].endTime})

totalMinutes(empTasks) ==
    SumSeq([i \in 1..Len(empTasks) |-> empTasks[i].endTime - empTasks[i].startTime])

\* empTasks.reduce((sum, task) => sum + (end - start) / (1000 * 60 * 60), 0),
\* over the list as the sort left it
RECURSIVE sumHours(_, _)
sumHours(sum, tasks) ==
    IF tasks = <<>> THEN sum
    ELSE sumHours(AddHours(sum, HoursOfMinutes(Head(tasks).endTime - Head(tasks).startTime)),
                  Tail(tasks))

totalHours(empTasks) == sumHours(HoursOfMinutes(0), sortByStart(empTasks))

FindEmployee(employees, employeeId) ==
    IF \E i \in 1..Len(employees) : employees[i].id = employeeId
    THEN <<employees[CHOOSE i \in 1..Len(employees) :
                         /\ employees[i].id = employeeId
                         /\ \A j \in 1..(i - 1) : employees[j].id # employeeId]>>
    ELSE <<>>

\* the sum of the minutes compared with maxHours, an hour count
exceedsMaxHours_MinutesAsHours(employee, empTasks) ==
    totalMinutes(empTasks) > employee.workingTimeModel.maxHours

\* totalHours > employee.workingTimeModel.maxHours
exceedsMaxHours(employee, empTasks) ==
    HoursGreater(totalHours(empTasks), employee.workingTimeModel.maxHours)

\* the issues the callback of employeeTasks.forEach pushes for one employee
employeeIssues(tasks, employees, employeeId) ==
    LET found == FindEmployee(employees, employeeId)
        empTasks == tasksOfEmployee(tasks, employeeId)
    IN  IF found = <<>> THEN <<>>
        ELSE [i \in 1..overlapCount(empTasks) |-> OverlapIssue(found[1])]
             \o (IF exceedsMaxHours(found[1], empTasks)
                 THEN <<MaxHoursIssue(found[1], totalHours(empTasks))>> ELSE <<>>)

\* the list after it was sorted by start time where it stands
tasksLeftByValidator_SortedInPlace(tasks) == sortByStart(tasks)

\* the list without the assignments of the employees reported as overlapping
tasksLeftByValidator_OverlapsRemoved(tasks) ==
    SelectSeq(tasks, LAMBDA task :
        overlapCount(tasksOfEmployee(tasks, task.employeeId)) = 0)

\* the tasks array after validateSchedule returned: the validator pushes the
\* tasks into arrays of its own, one per employee, and sorts those; the array
\* it was given and the tasks in it are only read
tasksLeftByValidator(tasks) == tasks

validateSchedule(tasks, employees) ==
    LET ids == FirstUses(tasks, {})
    IN  [issues |-> Flatten([k \in 1..Len(ids) |-> employeeIssues(tasks, employees, ids[k])])]

-----------------------------------------------------------------------------
(* ProductionScheduler.validateSchedule (the second scheduler's validator) *)

SchedulerOverlapIssue(employeeId) ==
    Issue("has overlapping assignments", "", "", 0, 0, employeeId, "")

\* the issues one pass of the `for (const [employeeId, employeeTasks] ...)` loop pushes
schedulerEmployeeIssues(tasks, employees, employeeId) ==
    LET employeeTasks == tasksOfEmployee(tasks, employeeId)
        found == FindEmployee(employees, employeeId)
    IN  [i \in 1..overlapCount(employeeTasks) |-> SchedulerOverlapIssue(employeeId)]
        \o (IF found # <<>> /\ exceedsMaxHours(found[1], employeeTasks)
            THEN <<MaxHoursIssue(found[1], totalHours(employeeTasks))>> ELSE <<>>)

schedulerValidateSchedule(tasks, employees) ==
    LET ids == FirstUses(tasks, {})
        issues == Flatten([k \in 1..Len(ids) |->
                              schedulerEmployeeIssues(tasks, employees, ids[k])])
    IN  [isValid |-> Len(issues) = 0, issues |-> issues]

-----------------------------------------------------------------------------
(* generateRecommendations: the advisories, by kind *)

\* Set insertion order of the elements of s
RECURSIVE Dedup(_, _)
Dedup(s, seen) ==
    IF s = <<>> THEN <<>>
    ELSE IF Head(s) \in seen THEN Dedup(Tail(s), seen)
         ELSE <<Head(s)>> \o Dedup(Tail(s), seen \cup {Head(s)})

generateRecommendations(tasks, employees, processSteps) ==
    LET assignedEmployees == Cardinality({tasks[i].employeeId : i \in 1..Len(tasks)})
        availableEmployees == Len(SelectSeq(employees, LAMBDA e : e.isAvailable))
        \* utilization = assigned / available * 100; NaN (0 / 0) compares false
        low == availableEmployees > 0 /\ assignedEmployees * 100 < 70 * availableEmployees
        high == availableEmployees > 0 /\ assignedEmployees * 100 > 95 * availableEmployees
        requiredSkills ==
            Dedup(Flatten([i \in 1..Len(processSteps) |-> processSteps[i].requiredSkills]), {})
        availableSkills ==
            UNION {employees[i].skills : i \in {j \in 1..Len(employees) : employees[j].isAvailable}}
        gaps == SelectSeq(requiredSkills, LAMBDA skill : skill \notin availableSkills)
        long == /\ Len(tasks) > 0
                /\ SumSeq([i \in 1..Len(tasks) |-> tasks[i].estimatedDuration]) > 240 * Len(tasks)
    IN  (IF low THEN <<"Low employee utilization">> ELSE <<>>)
        \o (IF high THEN <<"High employee utilization">> ELSE <<>>)
        \o [i \in 1..Len(gaps) |-> "Skill gap identified: " \o gaps[i]]
        \o (IF long THEN <<"Consider breaking down long tasks">> ELSE <<>>)


-----------------------------------------------------------------------------
(* ProductionScheduler.generateSchedule: the second scheduler.  Its context    *)
(* holds every employee, the orders of the date, every process step and the   *)
(* date; it reports no issues and tests no conflicts.                         *)

SchedulingContext(employees, orders, processSteps, contextDate) ==
    [employees |-> employees, orders |-> orders,
     processSteps |-> processSteps, date |-> contextDate]

priorityWeight(priority) ==
    CASE priority = "high" -> 3
      [] priority = "medium" -> 2
      [] OTHER -> 1

\* the comparator orders by priority weight descending, then quantity ascending
sortOrdersByPriority(context) ==
    StableSortByKey(context.orders,
        [i \in 1..Len(context.orders) |->
            (3 - priorityWeight(context.orders[i].priority)) * 100000
                + context.orders[i].totalQuantity])

\* every preparation step of the context, whatever the order
getPreparationSteps(context) ==
    SelectSeq(context.processSteps, LAMBDA step : IncludesPrep(step.productionAreaId))

getFillingSteps(context) ==
    SelectSeq(context.processSteps, LAMBDA step : IncludesFilling(step.productionAreaId))

\* the matcher with the availability test left out
findAvailableEmployees_FlagIgnored(context, step, time) ==
    SelectSeq(context.employees, LAMBDA employee :
        /\ hasRequiredSkills(employee, step)
        /\ withinWorkingTime(employee, time))

findAvailableEmployees(context, step, time) ==
    SelectSeq(context.employees, LAMBDA employee :
        /\ employee.isAvailable
        /\ hasRequiredSkills(employee, step)
        /\ withinWorkingTime(employee, time))

SchedulerTask(order, step, employee, startTime, endTime, duration) ==
    [orderId |-> order.id, processStepId |-> step.id, employeeId |-> employee.id,
     startTime |-> startTime, endTime |-> endTime, estimatedDuration |-> duration]

schedulerPreparationIteration(context, acc, pair) ==
    LET availableEmployees == findAvailableEmployees(context, pair.orderStep, acc.currentTime)
        duration == pair.orderStep.timePerKg * pair.order.totalQuantity
        endTime == acc.currentTime + duration
    IN  IF Len(availableEmployees) >= pair.orderStep.requiredEmployees
        THEN [tasks |-> acc.tasks \o
                  [i \in 1..pair.orderStep.requiredEmployees |->
                      SchedulerTask(pair.order, pair.orderStep, availableEmployees[i],
                                    acc.currentTime, endTime, duration)],
              currentTime |-> endTime]
        ELSE acc

schedulerFillingIteration(context, acc, pair) ==
    LET duration == pair.orderStep.timePerKg * pair.order.totalQuantity
        startTime == acc.currentTime - duration
        availableEmployees == findAvailableEmployees(context, pair.orderStep, startTime)
    IN  IF Len(availableEmployees) >= pair.orderStep.requiredEmployees
        THEN [tasks |-> acc.tasks \o
                  [i \in 1..pair.orderStep.requiredEmployees |->
                      SchedulerTask(pair.order, pair.orderStep, availableEmployees[i],
                                    startTime, acc.currentTime, duration)],
              currentTime |-> startTime]
        ELSE acc

RECURSIVE schedulerLoop(_, _, _, _)
schedulerLoop(context, acc, pairs, forward) ==
    IF pairs = <<>> THEN acc
    ELSE schedulerLoop(context,
                       IF forward THEN schedulerPreparationIteration(context, acc, Head(pairs))
                                  ELSE schedulerFillingIteration(context, acc, Head(pairs)),
                       Tail(pairs), forward)

schedulePreparationTasks(context, orders) ==
    schedulerLoop(context,
                  [tasks |-> <<>>, currentTime |-> createDateTime(context.date, PrepStartHour, 0)],
                  Pairs(orders, [k \in 1..Len(orders) |-> getPreparationSteps(context)]),
                  TRUE).tasks

scheduleFillingTasks(context, orders) ==
    LET reversedOrders == Reverse(orders)
    IN  schedulerLoop(context,
                      [tasks |-> <<>>,
                       currentTime |-> createDateTime(context.date, FillEndHour, 0)],
                      Pairs(reversedOrders,
                            [k \in 1..Len(reversedOrders) |-> Reverse(getFillingSteps(context))]),
                      FALSE).tasks

generateSchedule(context) ==
    LET sortedOrders == sortOrdersByPriority(context)
    IN  schedulePreparationTasks(context, sortedOrders)
        \o scheduleFillingTasks(context, sortedOrders)
-----------------------------------------------------------------------------
(* generateOptimalSchedule, one action per phase between its awaits *)

SchedulingResult(outcome, error, tasks, feasible, issues, recommendations) ==
    [outcome |-> outcome, error |-> error, tasks |-> tasks, feasible |-> feasible,
     issues |-> issues, recommendations |-> recommendations]

NoResult == SchedulingResult("none", "", <<>>, FALSE, <<>>, <<>>)

\* the promise rejects: the exception reaches the caller
Rejected(error) == SchedulingResult("threw", error, <<>>, FALSE, <<>>, <<>>)

\* return of the `orders.length === 0` branch
EmptyOrdersResult ==
    SchedulingResult("returned", "", <<>>, TRUE, <<>>,
                     <<"No production orders scheduled for this date">>)

\* feasible taken from the tasks list instead of the issues list
CompletedResult_FeasibleIfTasks(tasks, issues, recommendations) ==
    SchedulingResult("returned", "", tasks, Len(tasks) > 0, issues, recommendations)

\* return at the end of the try block
CompletedResult(tasks, issues, recommendations) ==
    SchedulingResult("returned", "", tasks, Len(issues) = 0, issues, recommendations)

\* return of the catch block
CaughtResult(error) ==
    SchedulingResult("returned", error, <<>>, FALSE, <<FailureIssue(error)>>,
                     <<"Please review input data and try again">>)

NoEngine == [employees |-> <<>>, productionAreas |-> <<>>, processSteps |-> <<>>]

NoLocals ==
    [orders |-> <<>>, availableEmployees |-> <<>>, sortedOrders |-> <<>>,
     preparationTasks |-> <<>>, fillingTasks |-> <<>>,
     tasks |-> <<>>, issues |-> <<>>, recommendations |-> <<>>,
     trace |-> <<>>]

NoValidation == [engine |-> <<>>, scheduler |-> <<>>]

\* the phases a call has entered so far, in order
Enter(phase) == [loc EXCEPT !.trace = Append(@, phase)]

Init ==
    /\ store \in InitialStores
    /\ today \in Days
    /\ pc = "Idle"
    /\ date = OrderDay
    /\ eng = NoEngine
    /\ loc = NoLocals
    /\ result = NoResult
    /\ runs = 0
    /\ vIn = <<>>
    /\ vOut = NoValidation

\* POST /api/schedule/generate: a new engine, generateOptimalSchedule(targetDate)
StartRun ==
    /\ pc \in {"Idle", "Done"}
    /\ runs < MaxRuns
    /\ \E d \in Days : date' = d
    /\ pc' = "Loading"
    /\ eng' = NoEngine
    /\ loc' = NoLocals
    /\ result' = NoResult
    /\ runs' = runs + 1
    /\ UNCHANGED <<store, today, vIn, vOut>>

\* loadData: three reads, each of which completes or fails
LoadData ==
    /\ pc = "Loading"
    /\ \/ /\ eng' = [employees |-> getEmployees(store),
                     productionAreas |-> getProductionAreas(store),
                     processSteps |-> getProcessSteps(store)]
          /\ pc' = "Fetching"
          /\ UNCHANGED result
       \/ /\ \E failing \in {"getEmployees", "getProductionAreas", "getProcessSteps"} :
                /\ eng' = [employees |-> IF failing = "getEmployees"
                                         THEN <<>> ELSE getEmployees(store),
                           productionAreas |-> IF failing = "getProcessSteps"
                                               THEN getProductionAreas(store) ELSE <<>>,
                           processSteps |-> <<>>]
                /\ result' = Rejected(failing \o " failed")
          /\ pc' = "Done"
    /\ UNCHANGED <<store, today, date, loc, runs, vIn, vOut>>

\* getProductionOrdersWithDetails, the filter on isAvailable, the empty-orders return
GetOrders ==
    /\ pc = "Fetching"
    /\ \/ LET orders == getProductionOrdersWithDetails(store, date)
              availableEmployees == SelectSeq(eng.employees, LAMBDA emp : emp.isAvailable)
          IN  /\ loc' = [loc EXCEPT !.orders = orders,
                                    !.availableEmployees = availableEmployees]
              /\ IF Len(orders) = 0
                 THEN pc' = "Done" /\ result' = EmptyOrdersResult
                 ELSE pc' = "Sequencing" /\ UNCHANGED result
       \/ /\ result' = Rejected("getProductionOrdersWithDetails failed")
          /\ pc' = "Done"
          /\ UNCHANGED loc
    /\ UNCHANGED <<store, today, date, eng, runs, vIn, vOut>>

Sequence ==
    /\ pc = "Sequencing"
    /\ loc' = [Enter("Sequencing") EXCEPT !.sortedOrders = sortOrdersByQuantity(loc.orders)]
    /\ pc' = "SchedulingPreparation"
    /\ UNCHANGED <<store, today, date, eng, result, runs, vIn, vOut>>

SchedulePreparation ==
    /\ pc = "SchedulingPreparation"
    /\ IF readsUndefined(loc.sortedOrders)
       THEN /\ result' = CaughtResult("Cannot read properties of undefined")
            /\ loc' = Enter("SchedulingPreparation")
            /\ pc' = "Done"
       ELSE /\ LET preparationTasks ==
                       schedulePreparationRooms(loc.sortedOrders, loc.availableEmployees,
                                                eng.processSteps, today)
               IN  loc' = [Enter("SchedulingPreparation") EXCEPT
                              !.preparationTasks = preparationTasks.tasks,
                              !.tasks = @ \o preparationTasks.tasks,
                              !.issues = @ \o preparationTasks.issues]
            /\ pc' = "SchedulingFilling"
            /\ UNCHANGED result
    /\ UNCHANGED <<store, today, date, eng, runs, vIn, vOut>>

ScheduleFilling ==
    /\ pc = "SchedulingFilling"
    /\ LET fillingTasks ==
               scheduleFillingRoom(loc.sortedOrders, loc.availableEmployees,
                                   loc.preparationTasks, eng.processSteps, today)
       IN  loc' = [Enter("SchedulingFilling") EXCEPT
                      !.fillingTasks = fillingTasks.tasks,
                      !.tasks = @ \o fillingTasks.tasks,
                      !.issues = @ \o fillingTasks.issues]
    /\ pc' = "Validating"
    /\ UNCHANGED <<store, today, date, eng, result, runs, vIn, vOut>>

Validate ==
    /\ pc = "Validating"
    /\ LET validation == validateSchedule(loc.tasks, loc.availableEmployees)
       IN  loc' = [Enter("Validating") EXCEPT !.issues = @ \o validation.issues,
                                               !.tasks = tasksLeftByValidator(@)]
    /\ pc' = "Recommending"
    /\ UNCHANGED <<store, today, date, eng, result, runs, vIn, vOut>>

\* a run that returns after its recommendations, without persisting, when it
\* has issues
Recommend_InfeasibleNotPersisted ==
    /\ pc = "Recommending"
    /\ loc' = [Enter("Recommending") EXCEPT !.recommendations =
                  @ \o generateRecommendations(loc.tasks, loc.availableEmployees,
                                               eng.processSteps)]
    /\ IF loc.issues = <<>>
       THEN pc' = "Persisting" /\ UNCHANGED result
       ELSE /\ pc' = "Done"
            /\ result' = CompletedResult(loc'.tasks, loc'.issues, loc'.recommendations)
    /\ UNCHANGED <<store, today, date, eng, runs, vIn, vOut>>

Recommend ==
    /\ pc = "Recommending"
    /\ loc' = [Enter("Recommending") EXCEPT !.recommendations =
                  @ \o generateRecommendations(loc.tasks, loc.availableEmployees,
                                               eng.processSteps)]
    /\ pc' = "Persisting"
    /\ UNCHANGED <<store, today, date, eng, result, runs, vIn, vOut>>

ShiftAssignmentOf(task) ==
    [employeeId |-> task.employeeId, orderProcessStepId |-> task.orderProcessStepId,
     startTime |-> task.startTime, endTime |-> task.endTime, status |-> "scheduled"]

\* the loop of saveShiftAssignments over the first n tasks
RECURSIVE createAll(_, _, _)
createAll(assignments, tasks, n) ==
    IF n = 0 THEN assignments
    ELSE createShiftAssignment(createAll(assignments, tasks, n - 1),
                               ShiftAssignmentOf(tasks[n]))

\* saveShiftAssignments and the return: the read of the existing assignments
\* (whose result is not used), then one createShiftAssignment per task.  A
\* call that fails lands in the catch block, the rows created before it stay.
Persist ==
    /\ pc = "Persisting"
    /\ \/ /\ store' = [store EXCEPT !.shiftAssignments =
                          createAll(@, loc.tasks, Len(loc.tasks))]
          /\ result' = CompletedResult(loc.tasks, loc.issues, loc.recommendations)
       \/ /\ UNCHANGED store
          /\ result' = CaughtResult("getShiftAssignments failed")
       \/ \E k \in 1..Len(loc.tasks) :
              /\ store' = [store EXCEPT !.shiftAssignments = createAll(@, loc.tasks, k - 1)]
              /\ result' = CaughtResult("createShiftAssignment failed")
    /\ loc' = Enter("Persisting")
    /\ pc' = "Done"
    /\ UNCHANGED <<today, date, eng, runs, vIn, vOut>>

Next ==
    \/ StartRun
    \/ LoadData
    \/ GetOrders
    \/ Sequence
    \/ SchedulePreparation
    \/ ScheduleFilling
    \/ Validate
    \/ Recommend
    \/ Persist

Spec == Init /\ [][Next]_vars

\* the same calls on a store that holds rows created after the seeding
InitAccepted ==
    /\ store \in AcceptedStores
    /\ today \in Days
    /\ pc = "Idle"
    /\ date = OrderDay
    /\ eng = NoEngine
    /\ loc = NoLocals
    /\ result = NoResult
    /\ runs = 0
    /\ vIn = <<>>
    /\ vOut = NoValidation

SpecAccepted == InitAccepted /\ [][Next]_vars

-----------------------------------------------------------------------------
(* The validators on their own: both validateSchedule functions applied to    *)
(* assignment lists drawn from a bounded set.  Time points are VUnit minutes  *)
(* apart; every assignment ends after it starts.                              *)

VUnit == 3 * 60

VPool == <<WorkerRoster[1], WorkerRoster[3]>>

VTask(employeeId, s, e) ==
    [orderId |-> "ord-1", orderProcessStepId |-> "ord-1/1", processStepId |-> "step-1",
     employeeId |-> employeeId, startTime |-> s * VUnit, endTime |-> e * VUnit,
     estimatedDuration |-> (e - s) * VUnit, productionAreaId |-> "prep-1"]

VIntervals == {se \in (0..MaxVTime) \X (0..MaxVTime) : se[1] < se[2]}

VTaskSet == {VTask(VPool[w].id, se[1], se[2]) : w \in 1..Len(VPool), se \in VIntervals}

VLists == UNION {[1..n -> VTaskSet] : n \in 0..MaxVTasks}

\* durations in minutes of assignments laid end to end from 06:00, and the
\* lists of them for one employee of the pool
VDurations == {20, 40, 120, 140, 180}

RECURSIVE VEndToEnd(_, _, _)
VEndToEnd(employeeId, from, durations) ==
    IF durations = <<>> THEN <<>>
    ELSE <<[VTask(employeeId, 0, 0) EXCEPT
               !.startTime = from, !.endTime = from + Head(durations),
               !.estimatedDuration = Head(durations)]>>
         \o VEndToEnd(employeeId, from + Head(durations), Tail(durations))

VHourLists ==
    {VEndToEnd(VPool[w].id, createDateTime(OrderDay, PrepStartHour, 0), ds) :
        w \in 1..Len(VPool), ds \in UNION {[1..n -> VDurations] : n \in 1..MaxVTasks}}

InitValidator ==
    /\ store = StoreOf(VPool, <<>>)
    /\ today = OrderDay
    /\ pc = "ValidatorReady"
    /\ date = OrderDay
    /\ eng = NoEngine
    /\ loc = NoLocals
    /\ result = NoResult
    /\ runs = 0
    /\ vIn \in VLists
    /\ vOut = NoValidation

RunValidators ==
    /\ pc = "ValidatorReady"
    /\ vOut' = [engine |-> validateSchedule(vIn, VPool).issues,
                scheduler |-> schedulerValidateSchedule(vIn, VPool).issues]
    /\ vIn' = tasksLeftByValidator(vIn)
    /\ pc' = "ValidatorDone"
    /\ UNCHANGED <<store, today, date, eng, loc, result, runs>>

\* the same calls again, on the list as the first calls left it
RunValidatorsAgain ==
    /\ pc = "ValidatorDone"
    /\ vOut' = [first |-> vOut,
                again |-> [engine |-> validateSchedule(vIn, VPool).issues,
                           scheduler |-> schedulerValidateSchedule(vIn, VPool).issues]]
    /\ vIn' = tasksLeftByValidator(vIn)
    /\ pc' = "ValidatedAgain"
    /\ UNCHANGED <<store, today, date, eng, loc, result, runs>>

NextValidator == RunValidators

SpecValidator == InitValidator /\ [][NextValidator]_vars

\* The validators called twice: on the end-to-end lists and on short lists in
\* any order
InitValidatorTwice ==
    /\ store = StoreOf(VPool, <<>>)
    /\ today = OrderDay
    /\ pc = "ValidatorReady"
    /\ date = OrderDay
    /\ eng = NoEngine
    /\ loc = NoLocals
    /\ result = NoResult
    /\ runs = 0
    /\ vIn \in VHourLists \cup UNION {[1..n -> VTaskSet] : n \in 0..MaxVPair}
    /\ vOut = NoValidation

NextValidatorTwice == RunValidators \/ RunValidatorsAgain

SpecValidatorTwice == InitValidatorTwice /\ [][NextValidatorTwice]_vars

-----------------------------------------------------------------------------
(* Both schedulers over one store: the engine's runs, and calls of            *)
(* ProductionScheduler.generateSchedule with a context read from the store.   *)

GenerateSchedule ==
    /\ \E d \in Days :
           vIn' = generateSchedule(
                      SchedulingContext(getEmployees(store), getProductionOrders(store, d),
                                        getProcessSteps(store), d))
    /\ UNCHANGED <<store, today, pc, date, eng, loc, result, runs, vOut>>

NextSchedulers == Next \/ GenerateSchedule

SpecSchedulers == Init /\ [][NextSchedulers]_vars

-----------------------------------------------------------------------------
(* findSuitableEmployees on its own: a pool in any order, a template, a       *)
(* candidate instant and the assignments made so far.                         *)

\* lists without repetition of at most MaxMatchPool employees of the roster
MatchPools ==
    {[i \in 1..Len(s) |-> WorkerRoster[s[i]]] :
        s \in {p \in UNION {[1..n -> 1..Len(WorkerRoster)] : n \in 0..MaxMatchPool} :
                  \A i \in 1..Len(p) : \A j \in 1..Len(p) : i # j => p[i] # p[j]}}

\* candidate instants at, just before and just after the turns of the roster's
\* working times
MatchInstants ==
    {createDateTime(OrderDay, hm[1], hm[2]) :
        hm \in {<<5, 59>>, <<6, 0>>, <<7, 0>>, <<14, 0>>, <<14, 1>>, <<15, 0>>, <<17, 0>>}}

MatchExisting ==
    {<<>>,
     <<ScheduledTask(Order("ord-1", "Salad", 100, "high"), [id |-> "ord-1/1"], SeedSteps[1],
                     WorkerRoster[1], createDateTime(OrderDay, 6, 0),
                     createDateTime(OrderDay, 9, 20), 200)>>,
     <<ScheduledTask(Order("ord-2", "Soup", 100, "medium"), [id |-> "ord-2/1"], SeedSteps[3],
                     WorkerRoster[3], createDateTime(OrderDay, 12, 0),
                     createDateTime(OrderDay, 17, 0), 300)>>}

InitMatcher ==
    /\ store = StoreOf(WorkerRoster, <<>>)
    /\ today = OrderDay
    /\ pc = "MatcherReady"
    /\ date = OrderDay
    /\ eng = NoEngine
    /\ loc = NoLocals
    /\ result = NoResult
    /\ runs = 0
    /\ vIn \in [processStep : Range(SeedSteps), taskTime : MatchInstants,
                allEmployees : MatchPools, existingTasks : MatchExisting]
    /\ vOut = <<>>

RunMatcher ==
    /\ pc = "MatcherReady"
    /\ vOut' = findSuitableEmployees(vIn.processStep, vIn.taskTime,
                                     vIn.allEmployees, vIn.existingTasks)
    /\ pc' = "MatcherDone"
    /\ UNCHANGED <<store, today, date, eng, loc, result, runs, vIn>>

NextMatcher == RunMatcher

SpecMatcher == InitMatcher /\ [][NextMatcher]_vars

-----------------------------------------------------------------------------
(* Properties *)

\* a call that reached its end
Returned == pc = "Done" /\ result.outcome = "returned"

\* no data-access call of the run failed
NoStorageFailure == result.error \in {"", "Cannot read properties of undefined"}

\* a call that ran on a day with orders and returned from the end of the try block
CompletedRun == Returned /\ result.error = "" /\ Len(loc.orders) > 0

Overlap(a, b) == a.startTime < b.endTime /\ b.startTime < a.endTime

StoredOrder(orderId) ==
    store.productionOrders[CHOOSE i \in 1..Len(store.productionOrders) :
                               store.productionOrders[i].id = orderId]

StoredOrderStep(orderStepId) ==
    store.orderProcessSteps[CHOOSE i \in 1..Len(store.orderProcessSteps) :
                                store.orderProcessSteps[i].id = orderStepId]

\* C1: every result that generateOptimalSchedule returns (normal completion,
\* the empty-orders return, the return of the catch block) has feasible = TRUE
\* exactly when its issues list is empty.
C1_FeasibleIffNoIssues ==
    result.outcome = "returned" => (result.feasible <=> Len(result.issues) = 0)

\* a normal completion that kept its tasks and raised issues
C1_Witness ==
    /\ CompletedRun
    /\ Len(result.tasks) > 0
    /\ Len(result.issues) > 0
    /\ ~result.feasible

\* C2: a failure in any phase of a run ends in the result of the catch block
\* (feasible = FALSE, no tasks, exactly one issue describing the failure) and
\* never reaches the caller as an exception.
C2_FailureYieldsErrorResult ==
    (pc = "Done" /\ result.error # "") => result = CaughtResult(result.error)

\* the order steps of the orders scheduled for `date` whose template is not stored
MissingTemplateRows ==
    {i \in 1..Len(store.orderProcessSteps) :
        /\ getProcessStep(store, store.orderProcessSteps[i].processStepId) = Undefined
        /\ DayOf(StoredOrder(store.orderProcessSteps[i].orderId).scheduledDate) = date}

\* the store without the order steps whose template is not stored
WithoutMissingTemplateRows(st) ==
    [st EXCEPT !.orderProcessSteps =
        SelectSeq(@, LAMBDA s : getProcessStep(st, s.processStepId) # Undefined)]

\* tasks and issues of a run of the two passes and the validator over a store
PlacementOver(st, d, now) ==
    LET available == SelectSeq(getEmployees(st), LAMBDA emp : emp.isAvailable)
        sorted == sortOrdersByQuantity(getProductionOrdersWithDetails(st, d))
        prep == schedulePreparationRooms(sorted, available, getProcessSteps(st), now)
        fill == scheduleFillingRoom(sorted, available, prep.tasks, getProcessSteps(st), now)
        tasks == prep.tasks \o fill.tasks
    IN  [tasks |-> tasks,
         issues |-> prep.issues \o fill.issues \o validateSchedule(tasks, available).issues]

DurationHolds(task) ==
    LET row == StoredOrderStep(task.orderProcessStepId)
        processStep == getProcessStep(store, row.processStepId)
        order == StoredOrder(row.orderId)
    IN  /\ task.processStepId = row.processStepId
        /\ task.orderId = row.orderId
        /\ task.estimatedDuration = processStep.timePerKg * order.totalQuantity
        /\ task.endTime - task.startTime = processStep.timePerKg * order.totalQuantity

C4_DurationIsTimePerKgTimesQuantity ==
    /\ \A i \in 1..Len(loc.tasks) : DurationHolds(loc.tasks[i])
    /\ \A i \in 1..Len(result.tasks) : DurationHolds(result.tasks[i])

\* a completed run whose result holds a preparation and a filling assignment
C4_Witness ==
    /\ CompletedRun
    /\ \E i \in 1..Len(result.tasks) : IncludesPrep(result.tasks[i].productionAreaId)
    /\ \E i \in 1..Len(result.tasks) : IncludesFilling(result.tasks[i].productionAreaId)

\* two assignments of this worker in the list overlap
WorkerOverlaps(tasks, employeeId) ==
    \E i \in 1..Len(tasks) : \E j \in 1..Len(tasks) :
        /\ i # j
        /\ tasks[i].employeeId = employeeId
        /\ tasks[j].employeeId = employeeId
        /\ Overlap(tasks[i], tasks[j])

\* C5: for every worker, both validators report an overlapping-assignments
\* issue for the worker exactly when two of the worker's assignments overlap,
\* adjacent after sorting or not.
C5_OverlapReportedIff ==
    pc = "ValidatorDone" =>
        \A w \in 1..Len(VPool) :
            /\ WorkerOverlaps(vIn, VPool[w].id)
                   <=> (\E k \in 1..Len(vOut.engine) : vOut.engine[k] = OverlapIssue(VPool[w]))
            /\ WorkerOverlaps(vIn, VPool[w].id)
                   <=> (\E k \in 1..Len(vOut.scheduler) :
                            vOut.scheduler[k] = SchedulerOverlapIssue(VPool[w].id))

\* three assignments of one worker, given out of start order, in which the
\* first and the last by start time overlap and the last two do not
C5_Witness ==
    /\ pc = "ValidatorDone"
    /\ Len(vIn) = 3
    /\ vIn[1].employeeId = vIn[2].employeeId
    /\ vIn[2].employeeId = vIn[3].employeeId
    /\ vIn[1].startTime > vIn[2].startTime
    /\ LET s == sortByStart(vIn)
       IN  Overlap(s[1], s[3]) /\ ~Overlap(s[2], s[3])
    /\ Len(vOut.engine) > 0

\* C6: no worker holds a filling assignment that overlaps one of the worker's
\* own preparation assignments (the matcher keeps out every worker with an
\* assignment overlapping the whole interval of the step being placed).
C6_NoOverlapWithOwnPreparation ==
    \A i \in 1..Len(loc.fillingTasks) : \A j \in 1..Len(loc.preparationTasks) :
        loc.fillingTasks[i].employeeId = loc.preparationTasks[j].employeeId
            => ~Overlap(loc.fillingTasks[i], loc.preparationTasks[j])

\* C7: when the forward pass places anything, the earliest start of its
\* assignments is the fixed preparation start, 06:00, whatever was skipped.
C7_EarliestPreparationStart ==
    loc.preparationTasks # <<>> =>
        /\ \A i \in 1..Len(loc.preparationTasks) :
               loc.preparationTasks[i].startTime >= createDateTime(today, PrepStartHour, 0)
        /\ \E i \in 1..Len(loc.preparationTasks) :
               loc.preparationTasks[i].startTime = createDateTime(today, PrepStartHour, 0)

\* the forward pass skipped the first step it tried and placed a later one
C7_Witness ==
    /\ pc = "SchedulingFilling"
    /\ loc.preparationTasks # <<>>
    /\ LET pairs == preparationPairs(loc.sortedOrders)
       IN  \A i \in 1..Len(loc.preparationTasks) :
               loc.preparationTasks[i].orderProcessStepId # pairs[1].orderStep.id
    /\ \E k \in 1..Len(loc.issues) : loc.issues[k].kind = "Insufficient skilled staff"

\* C8: when the backward pass places anything, the latest end of its
\* assignments is the fixed filling end, 17:00, whatever was skipped.
C8_LatestFillingEnd ==
    loc.fillingTasks # <<>> =>
        /\ \A i \in 1..Len(loc.fillingTasks) :
               loc.fillingTasks[i].endTime <= createDateTime(today, FillEndHour, 0)
        /\ \E i \in 1..Len(loc.fillingTasks) :
               loc.fillingTasks[i].endTime = createDateTime(today, FillEndHour, 0)

\* the backward pass skipped, as understaffed, the first step it tried and
\* placed a later one
C8_Witness ==
    /\ pc = "Validating"
    /\ loc.fillingTasks # <<>>
    /\ LET pairs == fillingPairs(loc.sortedOrders)
       IN  /\ \A i \in 1..Len(loc.fillingTasks) :
                  loc.fillingTasks[i].orderProcessStepId # pairs[1].orderStep.id
           /\ \E k \in 1..Len(loc.issues) :
                  /\ loc.issues[k].kind = "Insufficient skilled staff"
                  /\ loc.issues[k].step = pairs[1].orderStep.processStep.name

\* the available employees of the store that hold every skill of the template
QualifiedAvailable(processStep) ==
    SelectSeq(store.employees,
              LAMBDA e : e.isAvailable /\ hasRequiredSkills(e, processStep))

\* the store holds one order, of `qty` kg, whose only order step is of a
\* template of this area kind with these minutes per kg and this headcount
SingleStepStore(qty, prep, timePerKg, requiredEmployees) ==
    /\ Len(store.productionOrders) = 1
    /\ store.productionOrders[1].totalQuantity = qty
    /\ Len(store.orderProcessSteps) = 1
    /\ LET processStep == getProcessStep(store, store.orderProcessSteps[1].processStepId)
       IN  /\ processStep # Undefined
           /\ IF prep THEN IncludesPrep(processStep.productionAreaId)
                      ELSE IncludesFilling(processStep.productionAreaId)
           /\ processStep.timePerKg = timePerKg
           /\ processStep.requiredEmployees = requiredEmployees

\* Scenario B: one order of 100 kg, one filling step (3 min/kg, headcount 2),
\* one qualified worker available
ScenarioB ==
    /\ SingleStepStore(100, FALSE, 3, 2)
    /\ Len(QualifiedAvailable(
               getProcessStep(store, store.orderProcessSteps[1].processStepId))) = 1

\* C9 as stated: Scenario B gives no assignment, exactly one issue, the
\* staffing shortfall "need 2, found 1", and feasible = FALSE.
C9_ScenarioB_StaffingIssue ==
    (CompletedRun /\ ScenarioB) =>
        /\ result.tasks = <<>>
        /\ Len(result.issues) = 1
        /\ result.issues[1].kind = "Insufficient skilled staff"
        /\ result.issues[1].need = 2
        /\ result.issues[1].found = 1
        /\ ~result.feasible

\* C9 amended: Scenario B gives no assignment, exactly one issue, which is the
\* unmet dependency of the filling step (the order has no preparation
\* assignment; the matcher is not consulted), and feasible = FALSE.
C9_ScenarioB_DependencyIssue ==
    (CompletedRun /\ ScenarioB) =>
        /\ result.tasks = <<>>
        /\ result.issues =
               <<DependencyIssue(
                     getProcessStep(store, store.orderProcessSteps[1].processStepId),
                     store.productionOrders[1],
                     "Preparation steps must be completed before filling")>>
        /\ ~result.feasible

C9_Witness == CompletedRun /\ ScenarioB

\* Scenario A: one order of 100 kg, one preparation step (2 min/kg, headcount
\* 1), the one available worker has the skill and works 06:00-14:00
ScenarioA ==
    /\ SingleStepStore(100, TRUE, 2, 1)
    /\ LET available == SelectSeq(store.employees, LAMBDA e : e.isAvailable)
       IN  /\ Len(available) = 1
           /\ hasRequiredSkills(available[1],
                  getProcessStep(store, store.orderProcessSteps[1].processStepId))
           /\ available[1].workingTimeModel.startTime = <<6, 0>>
           /\ available[1].workingTimeModel.endTime = <<14, 0>>

\* C10: Scenario A gives exactly one assignment, from 06:00 to 09:20 (200
\* minutes), no issue, and feasible = TRUE.
C10_ScenarioA ==
    (CompletedRun /\ ScenarioA) =>
        /\ Len(result.tasks) = 1
        /\ result.tasks[1].startTime = createDateTime(today, 6, 0)
        /\ result.tasks[1].endTime = createDateTime(today, 9, 20)
        /\ result.tasks[1].estimatedDuration = 200
        /\ result.issues = <<>>
        /\ result.feasible

C10_Witness == CompletedRun /\ ScenarioA /\ Len(result.tasks) = 1

\* the backward pass of the run in flight has returned
FillingPassDone == \E i \in 1..Len(loc.trace) : loc.trace[i] = "SchedulingFilling"

\* the forward pass placed a preparation-area assignment for this order
HasPreparationTask(orderId) ==
    \E j \in 1..Len(loc.preparationTasks) :
        /\ loc.preparationTasks[j].orderId = orderId
        /\ IncludesPrep(loc.preparationTasks[j].productionAreaId)

DependencyIssueOf(pair) ==
    DependencyIssue(pair.orderStep.processStep, pair.order,
                    "Preparation steps must be completed before filling")

PlacedIn(tasks, pair) ==
    \E k \in 1..Len(tasks) : tasks[k].orderProcessStepId = pair.orderStep.id

\* C11: the dependency checker reports "met" for a filling step of an order
\* exactly when the forward pass placed a preparation-area assignment of that
\* order, and always for a preparation step; a filling step reported unmet gets
\* a dependency issue and no assignment, one reported met gets no such issue.
C11_DependencyMetIffOrderHasPreparation ==
    FillingPassDone =>
        /\ \A i \in 1..Len(fillingPairs(loc.sortedOrders)) :
               LET pair == fillingPairs(loc.sortedOrders)[i]
                   reported == checkDependencies(pair.order.id, pair.orderStep.processStep,
                                                 loc.preparationTasks)
                   recorded == \E k \in 1..Len(loc.issues) :
                                   loc.issues[k] = DependencyIssueOf(pair)
               IN  /\ reported.met <=> HasPreparationTask(pair.order.id)
                   /\ recorded <=> ~HasPreparationTask(pair.order.id)
                   /\ ~HasPreparationTask(pair.order.id) => ~PlacedIn(loc.fillingTasks, pair)
        /\ \A i \in 1..Len(preparationPairs(loc.sortedOrders)) :
               LET pair == preparationPairs(loc.sortedOrders)[i]
               IN  checkDependencies(pair.order.id, pair.orderStep.processStep,
                                     loc.preparationTasks).met

\* one run with a filling step held back for an order without preparation
\* assignments and a filling step placed for an order that has some
C11_Witness ==
    /\ FillingPassDone
    /\ \E i \in 1..Len(fillingPairs(loc.sortedOrders)) :
           LET pair == fillingPairs(loc.sortedOrders)[i]
           IN  /\ ~HasPreparationTask(pair.order.id)
               /\ \E k \in 1..Len(loc.issues) : loc.issues[k] = DependencyIssueOf(pair)
    /\ \E i \in 1..Len(fillingPairs(loc.sortedOrders)) :
           LET pair == fillingPairs(loc.sortedOrders)[i]
           IN  HasPreparationTask(pair.order.id) /\ PlacedIn(loc.fillingTasks, pair)

\* the place of an order in the processing sequence of the run
PlaceInSequence(orderId) ==
    CHOOSE k \in 1..Len(loc.sortedOrders) : loc.sortedOrders[k].id = orderId

\* C12: in the forward pass every preparation assignment of an order ends at
\* or before the start of every preparation assignment of an order that comes
\* later in the processing sequence; an order of a smaller quantity (50 kg
\* against 200 kg) has its preparation assignments strictly before those of the
\* larger one.
C12_PreparationFollowsSequence ==
    \A i \in 1..Len(loc.preparationTasks) : \A j \in 1..Len(loc.preparationTasks) :
        LET a == loc.preparationTasks[i]
            b == loc.preparationTasks[j]
        IN  /\ PlaceInSequence(a.orderId) < PlaceInSequence(b.orderId)
                => a.endTime <= b.startTime
            /\ StoredOrder(a.orderId).totalQuantity < StoredOrder(b.orderId).totalQuantity
                => a.endTime <= b.startTime /\ a.startTime < b.startTime

\* a 200 kg order stored ahead of a 50 kg order, both with preparation
\* assignments
C12_Witness ==
    /\ pc = "SchedulingFilling"
    /\ \E i \in 1..Len(loc.preparationTasks) : \E j \in 1..Len(loc.preparationTasks) :
           /\ StoredOrder(loc.preparationTasks[i].orderId).totalQuantity = 50
           /\ StoredOrder(loc.preparationTasks[j].orderId).totalQuantity = 200
    /\ Len(loc.orders) = 2
    /\ loc.orders[1].totalQuantity = 200

\* the sequencer of the run in flight has returned
Sequenced == \E i \in 1..Len(loc.trace) : loc.trace[i] = "Sequencing"

\* the place of an order in the list the sequencer was given
PlaceInInput(orderId) ==
    CHOOSE k \in 1..Len(loc.orders) : loc.orders[k].id = orderId

\* C13: the sequencer returns a permutation of the day's orders in ascending
\* totalQuantity, whatever their priority; orders of equal totalQuantity keep
\* the relative order of the input; the input list is left as it was fetched.
C13_SequenceIsStableAscendingQuantity ==
    Sequenced =>
        /\ Len(loc.sortedOrders) = Len(loc.orders)
        /\ \A k \in 1..Len(loc.orders) :
               Cardinality({i \in 1..Len(loc.sortedOrders) :
                               loc.sortedOrders[i] = loc.orders[k]}) = 1
        /\ \A i \in 1..Len(loc.sortedOrders) : \A j \in 1..Len(loc.sortedOrders) :
               i < j =>
                   /\ loc.sortedOrders[i].totalQuantity <= loc.sortedOrders[j].totalQuantity
                   /\ loc.sortedOrders[i].totalQuantity = loc.sortedOrders[j].totalQuantity
                          => PlaceInInput(loc.sortedOrders[i].id)
                                 < PlaceInInput(loc.sortedOrders[j].id)
        /\ loc.orders = getProductionOrdersWithDetails(store, date)

\* a high-priority order fetched first and sequenced after a smaller order of
\* medium priority
C13_Witness ==
    /\ Sequenced
    /\ Len(loc.orders) = 2
    /\ loc.orders[1].priority = "high"
    /\ loc.sortedOrders[1].priority = "medium"
    /\ loc.sortedOrders[2] = loc.orders[1]
    /\ loc.sortedOrders[1].totalQuantity < loc.sortedOrders[2].totalQuantity

StoredEmployee(employeeId) ==
    store.employees[CHOOSE i \in 1..Len(store.employees) :
                        store.employees[i].id = employeeId]

\* C14: no assignment of either scheduler (the engine's passes and result, the
\* rows it stores, the list ProductionScheduler.generateSchedule returns) is
\* given to a worker whose isAvailable flag is false.
C14_NoAssignmentToUnavailable ==
    /\ \A i \in 1..Len(loc.tasks) : StoredEmployee(loc.tasks[i].employeeId).isAvailable
    /\ \A i \in 1..Len(result.tasks) : StoredEmployee(result.tasks[i].employeeId).isAvailable
    /\ \A i \in 1..Len(store.shiftAssignments) :
           StoredEmployee(store.shiftAssignments[i].employeeId).isAvailable
    /\ \A i \in 1..Len(vIn) : StoredEmployee(vIn[i].employeeId).isAvailable

\* both schedulers have placed work while the store holds an unavailable
\* worker whose skills and working time fit a step the second scheduler placed
C14_Witness ==
    /\ CompletedRun
    /\ Len(result.tasks) > 0
    /\ \E i \in 1..Len(vIn) : \E w \in 1..Len(store.employees) :
           /\ ~store.employees[w].isAvailable
           /\ hasRequiredSkills(store.employees[w],
                                getProcessStep(store, vIn[i].processStepId))
           /\ withinWorkingTime(store.employees[w], vIn[i].startTime)

\* minutes into its day of an instant, and of an "HH:MM" of a working time
MinuteOfDay(t) == t % MinutesPerDay
MinuteOfClock(hm) == hm[1] * 60 + hm[2]

HasEverySkill(employee, processStep) ==
    \A k \in 1..Len(processStep.requiredSkills) :
        processStep.requiredSkills[k] \in employee.skills

InClosedWindow(employee, t) ==
    /\ MinuteOfClock(employee.workingTimeModel.startTime) <= MinuteOfDay(t)
    /\ MinuteOfDay(t) <= MinuteOfClock(employee.workingTimeModel.endTime)

\* C15: the matcher returns a worker only if the worker holds every required
\* skill of the step and the hour of day of the candidate instant lies in the
\* worker's working time, both ends included; a worker with the skills, with
\* the instant in that closed window (its end included) and with no assignment
\* yet is returned.
C15_MatcherSkillsAndClosedWindow ==
    pc = "MatcherDone" =>
        \A w \in 1..Len(vIn.allEmployees) :
            LET employee == vIn.allEmployees[w]
                returned == \E k \in 1..Len(vOut) : vOut[k] = employee
                assigned == \E k \in 1..Len(vIn.existingTasks) :
                                vIn.existingTasks[k].employeeId = employee.id
            IN  /\ returned => /\ HasEverySkill(employee, vIn.processStep)
                               /\ InClosedWindow(employee, vIn.taskTime)
                /\ (/\ HasEverySkill(employee, vIn.processStep)
                    /\ InClosedWindow(employee, vIn.taskTime)
                    /\ ~assigned) => returned

\* a worker returned for a candidate instant that is the worker's endTime,
\* next to one kept out for a missing skill
C15_Witness ==
    /\ pc = "MatcherDone"
    /\ \E k \in 1..Len(vOut) :
           MinuteOfDay(vIn.taskTime) = MinuteOfClock(vOut[k].workingTimeModel.endTime)
    /\ \E w \in 1..Len(vIn.allEmployees) :
           /\ ~HasEverySkill(vIn.allEmployees[w], vIn.processStep)
           /\ InClosedWindow(vIn.allEmployees[w], vIn.taskTime)

\* the index in `tasks` of the first assignment of an order step
FirstTaskOf(tasks, pair) ==
    CHOOSE k \in 1..Len(tasks) :
        /\ tasks[k].orderProcessStepId = pair.orderStep.id
        /\ \A j \in 1..(k - 1) : tasks[j].orderProcessStepId # pair.orderStep.id

\* what the matcher returned when the pass placed this order step (`before`
\* are the assignments the pass handed to it)
ReturnedFor(tasks, pair, before) ==
    findSuitableEmployees(pair.orderStep.processStep,
                          tasks[FirstTaskOf(tasks, pair)].startTime,
                          loc.availableEmployees, before)

\* the order step was given to the first requiredEmployees workers of what the
\* matcher returned, and the matcher returned its workers in pool order
FirstOfPoolOrder(tasks, pair, before) ==
    LET first == FirstTaskOf(tasks, pair)
        returned == ReturnedFor(tasks, pair, before)
        n == pair.orderStep.processStep.requiredEmployees
    IN  /\ returned = SelectSeq(loc.availableEmployees,
                                LAMBDA e : \E k \in 1..Len(returned) : returned[k] = e)
        /\ Len(returned) >= n
        /\ \A k \in 1..Len(tasks) :
               tasks[k].orderProcessStepId = pair.orderStep.id
                   <=> (first <= k /\ k < first + n)
        /\ \A i \in 1..n : tasks[first + i - 1].employeeId = returned[i].id

\* C16: the matcher returns the qualifying workers in the order of the pool it
\* was given, and each pass gives a placed step to exactly the first
\* requiredEmployees workers of the returned list.
C16_FirstWorkersInPoolOrder ==
    /\ \A i \in 1..Len(preparationPairs(loc.sortedOrders)) :
           LET pair == preparationPairs(loc.sortedOrders)[i]
           IN  PlacedIn(loc.preparationTasks, pair) =>
                   FirstOfPoolOrder(loc.preparationTasks, pair,
                       SubSeq(loc.preparationTasks, 1,
                              FirstTaskOf(loc.preparationTasks, pair) - 1))
    /\ \A i \in 1..Len(fillingPairs(loc.sortedOrders)) :
           LET pair == fillingPairs(loc.sortedOrders)[i]
           IN  PlacedIn(loc.fillingTasks, pair) =>
                   FirstOfPoolOrder(loc.fillingTasks, pair,
                       SubSeq(loc.fillingTasks, 1, FirstTaskOf(loc.fillingTasks, pair) - 1)
                           \o loc.preparationTasks)

\* a placed step for which the matcher returned more workers than required,
\* in each pass
C16_Witness ==
    /\ FillingPassDone
    /\ \E i \in 1..Len(preparationPairs(loc.sortedOrders)) :
           LET pair == preparationPairs(loc.sortedOrders)[i]
           IN  /\ PlacedIn(loc.preparationTasks, pair)
               /\ Len(ReturnedFor(loc.preparationTasks, pair,
                          SubSeq(loc.preparationTasks, 1,
                                 FirstTaskOf(loc.preparationTasks, pair) - 1)))
                      > pair.orderStep.processStep.requiredEmployees
    /\ \E i \in 1..Len(fillingPairs(loc.sortedOrders)) :
           LET pair == fillingPairs(loc.sortedOrders)[i]
           IN  /\ PlacedIn(loc.fillingTasks, pair)
               /\ Len(ReturnedFor(loc.fillingTasks, pair,
                          SubSeq(loc.fillingTasks, 1, FirstTaskOf(loc.fillingTasks, pair) - 1)
                              \o loc.preparationTasks))
                      > pair.orderStep.processStep.requiredEmployees

\* the result holds the issue of a pass that skipped this order step
SkipRecorded(pair) ==
    \E k \in 1..Len(result.issues) :
        /\ result.issues[k].kind \in {"Insufficient skilled staff", "Dependency not met"}
        /\ result.issues[k].step = pair.orderStep.processStep.name
        /\ result.issues[k].product = pair.order.productName

\* placed with its full headcount in the result, or skipped with its issue
PlacedOrSkipped(pair) ==
    IF SkipRecorded(pair)
    THEN ~PlacedIn(result.tasks, pair)
    ELSE Cardinality({k \in 1..Len(result.tasks) :
                         result.tasks[k].orderProcessStepId = pair.orderStep.id})
             = pair.orderStep.processStep.requiredEmployees

\* C17: on normal completion skipping is per step.  Every step of both passes
\* is either placed, and its assignments are in the returned tasks, or skipped
\* with its issue, whatever was skipped before it; the returned tasks are all
\* the assignments of the two passes, also when feasible is false.
C17_SkippingIsPerStep ==
    CompletedRun =>
        /\ result.tasks = loc.preparationTasks \o loc.fillingTasks
        /\ \A i \in 1..Len(preparationPairs(loc.sortedOrders)) :
               PlacedOrSkipped(preparationPairs(loc.sortedOrders)[i])
        /\ \A i \in 1..Len(fillingPairs(loc.sortedOrders)) :
               PlacedOrSkipped(fillingPairs(loc.sortedOrders)[i])
        /\ result.feasible <=> result.issues = <<>>

\* an infeasible result that holds, for each pass, an assignment of a step
\* tried after a skipped one, and so a filling skip after kept preparation work
C17_Witness ==
    /\ CompletedRun
    /\ ~result.feasible
    /\ LET pairs == preparationPairs(loc.sortedOrders)
       IN  \E i \in 1..Len(pairs) : \E j \in 1..Len(pairs) :
               i < j /\ SkipRecorded(pairs[i]) /\ PlacedIn(result.tasks, pairs[j])
    /\ LET pairs == fillingPairs(loc.sortedOrders)
       IN  \E i \in 1..Len(pairs) : \E j \in 1..Len(pairs) :
               i < j /\ SkipRecorded(pairs[i]) /\ PlacedIn(result.tasks, pairs[j])

AssignedMinutes(tasks, employeeId) ==
    totalMinutes(tasksOfEmployee(tasks, employeeId))

HoursIssueFor(issues, employee) ==
    \E k \in 1..Len(issues) :
        /\ issues[k].kind = "exceeds maximum working hours"
        /\ issues[k].who = employee.name

\* C19: for every worker with an assignment, each validator reports a
\* maximum-working-hours issue exactly when the worker's assigned time, end
\* minus start summed over the assignments, is more than maxHours hours; a
\* total of exactly maxHours hours raises no issue.
C19_HoursIssueIffOverMaxHours ==
    pc = "ValidatorDone" =>
        \A w \in 1..Len(VPool) :
            tasksOfEmployee(vIn, VPool[w].id) # <<>> =>
                LET over == AssignedMinutes(vIn, VPool[w].id)
                                > VPool[w].workingTimeModel.maxHours * 60
                IN  /\ HoursIssueFor(vOut.engine, VPool[w]) <=> over
                    /\ HoursIssueFor(vOut.scheduler, VPool[w]) <=> over

\* validateSchedule of the run in flight has returned
Validated == \E i \in 1..Len(loc.trace) : loc.trace[i] = "Validating"

\* C20: validation only reports.  After validateSchedule the tasks of the run
\* are the assignments of the two passes, same workers, same start and end
\* times, also when the validator reports overlaps or exceeded hours; its
\* issues come after the issues of the passes, and a completed run returns
\* those tasks and those issues.
C20_ValidationOnlyReports ==
    Validated =>
        LET placed == loc.preparationTasks \o loc.fillingTasks
            reported == validateSchedule(placed, loc.availableEmployees).issues
            n == Len(loc.issues) - Len(reported)
        IN  /\ loc.tasks = placed
            /\ n >= 0
            /\ SubSeq(loc.issues, n + 1, Len(loc.issues)) = reported
            /\ \A k \in 1..n :
                   loc.issues[k].kind \in {"Insufficient skilled staff", "Dependency not met"}
            /\ CompletedRun => result.tasks = placed /\ result.issues = loc.issues

\* a completed run whose validator reported an overlap and exceeded hours of
\* a worker, with the overlapping assignments in the returned tasks
C20_Witness ==
    /\ CompletedRun
    /\ \E k \in 1..Len(result.issues) : result.issues[k].kind = "has overlapping assignments"
    /\ \E k \in 1..Len(result.issues) : result.issues[k].kind = "exceeds maximum working hours"
    /\ \E i \in 1..Len(result.tasks) : \E j \in 1..Len(result.tasks) :
           /\ i # j
           /\ result.tasks[i].employeeId = result.tasks[j].employeeId
           /\ Overlap(result.tasks[i], result.tasks[j])

\* C21: every assignment the scheduler creates, in the tasks of a run and in
\* a returned result, ends strictly after it starts, whatever template and
\* order rows the store holds.
C21_EndAfterStart ==
    /\ \A i \in 1..Len(loc.tasks) : loc.tasks[i].endTime > loc.tasks[i].startTime
    /\ \A i \in 1..Len(result.tasks) : result.tasks[i].endTime > result.tasks[i].startTime

\* the forward pass of the run in flight has returned its tasks and issues
PreparationPassReturned == pc = "SchedulingFilling" \/ FillingPassDone

\* the assignments of a pass for one of its (order, order step) pairs
TasksOfPair(tasks, pair) ==
    SelectSeq(tasks, LAMBDA t : t.orderProcessStepId = pair.orderStep.id)

\* the preparation clock when the i-th pair of the forward pass is attempted,
\* read off the assignments: the end of the last step placed before it, 06:00
\* when none was
RECURSIVE PreparationClockAt(_, _)
PreparationClockAt(pairs, i) ==
    IF i = 1 THEN createDateTime(today, PrepStartHour, 0)
    ELSE IF PlacedIn(loc.preparationTasks, pairs[i - 1])
         THEN TasksOfPair(loc.preparationTasks, pairs[i - 1])[1].endTime
         ELSE PreparationClockAt(pairs, i - 1)

\* the assignments the forward pass held when its i-th pair was attempted
PreparationTasksBefore(pairs, i) ==
    SelectSeq(loc.preparationTasks,
              LAMBDA t : \E j \in 1..(i - 1) : t.orderProcessStepId = pairs[j].orderStep.id)

\* what the matcher returns for the i-th pair of the forward pass
MatchedForPreparation(pairs, i) ==
    findSuitableEmployees(pairs[i].orderStep.processStep, PreparationClockAt(pairs, i),
                          loc.availableEmployees, PreparationTasksBefore(pairs, i))

StaffIssuesOf(pair) ==
    {k \in 1..Len(loc.issues) :
        /\ loc.issues[k].kind = "Insufficient skilled staff"
        /\ loc.issues[k].step = pair.orderStep.processStep.name
        /\ loc.issues[k].product = pair.order.productName}

\* C22: when the matcher returns fewer workers than a step of the forward pass
\* requires, the step has exactly one issue, "need X, found Y" with X its
\* requiredEmployees and Y the number returned, and no assignment; the clock
\* keeps its value, so that every placed step starts at the end of the last
\* step placed before it (at 06:00 when there is none), however many steps
\* were skipped in between.
C22_ShortStaffedStepSkippedClockKept ==
    PreparationPassReturned =>
        LET pairs == preparationPairs(loc.sortedOrders)
        IN  \A i \in 1..Len(pairs) :
                LET matched == MatchedForPreparation(pairs, i)
                    processStep == pairs[i].orderStep.processStep
                IN  IF Len(matched) < processStep.requiredEmployees
                    THEN /\ Cardinality(StaffIssuesOf(pairs[i])) = 1
                         /\ \A k \in StaffIssuesOf(pairs[i]) :
                                /\ loc.issues[k].need = processStep.requiredEmployees
                                /\ loc.issues[k].found = Len(matched)
                         /\ ~PlacedIn(loc.preparationTasks, pairs[i])
                    ELSE /\ StaffIssuesOf(pairs[i]) = {}
                         /\ PlacedIn(loc.preparationTasks, pairs[i])
                         /\ \A k \in 1..Len(loc.preparationTasks) :
                                loc.preparationTasks[k].orderProcessStepId = pairs[i].orderStep.id
                                    => loc.preparationTasks[k].startTime
                                           = PreparationClockAt(pairs, i)

\* a forward pass whose matcher returned one worker for a step that requires
\* two: the step has its one issue and no assignment, and the two steps
\* after it are placed, the first at the instant of the skipped one
C22_Witness ==
    /\ PreparationPassReturned
    /\ LET pairs == preparationPairs(loc.sortedOrders)
       IN  \E i \in 1..Len(pairs) : \E j \in 1..Len(pairs) : \E l \in 1..Len(pairs) :
               /\ i < j /\ j < l
               /\ Len(MatchedForPreparation(pairs, i)) = 1
               /\ pairs[i].orderStep.processStep.requiredEmployees = 2
               /\ Cardinality(StaffIssuesOf(pairs[i])) = 1
               /\ ~PlacedIn(loc.preparationTasks, pairs[i])
               /\ PlacedIn(loc.preparationTasks, pairs[j])
               /\ TasksOfPair(loc.preparationTasks, pairs[j])[1].startTime
                      = PreparationClockAt(pairs, i)
               /\ PlacedIn(loc.preparationTasks, pairs[l])
               /\ TasksOfPair(loc.preparationTasks, pairs[l])[1].startTime
                      = TasksOfPair(loc.preparationTasks, pairs[j])[1].endTime

\* the filling clock when the i-th pair of the backward pass is attempted,
\* read off the assignments: the start of the last step placed before it,
\* 17:00 when none was
RECURSIVE FillingClockAt(_, _)
FillingClockAt(pairs, i) ==
    IF i = 1 THEN createDateTime(today, FillEndHour, 0)
    ELSE IF PlacedIn(loc.fillingTasks, pairs[i - 1])
         THEN TasksOfPair(loc.fillingTasks, pairs[i - 1])[1].startTime
         ELSE FillingClockAt(pairs, i - 1)

\* the backward pass recorded a skip of this pair: dependency unmet or understaffed
FillingSkipOf(pair) ==
    {k \in 1..Len(loc.issues) :
        /\ loc.issues[k].kind \in {"Dependency not met", "Insufficient skilled staff"}
        /\ loc.issues[k].step = pair.orderStep.processStep.name
        /\ loc.issues[k].product = pair.order.productName}

\* C23: the placed filling steps form one chain without gaps.  Every
\* assignment of a placed step ends where the last step placed before it
\* starts, at 17:00 when it is the first placed one, and starts its duration
\* earlier; a skipped step, dependency unmet or understaffed, has no
\* assignment and leaves the clock where it was.  No two placed steps overlap.
C23_FillingChainWithoutGaps ==
    FillingPassDone =>
        LET pairs == fillingPairs(loc.sortedOrders)
        IN  /\ \A i \in 1..Len(pairs) :
                   IF FillingSkipOf(pairs[i]) # {}
                   THEN ~PlacedIn(loc.fillingTasks, pairs[i])
                   ELSE /\ PlacedIn(loc.fillingTasks, pairs[i])
                        /\ \A k \in 1..Len(loc.fillingTasks) :
                               loc.fillingTasks[k].orderProcessStepId = pairs[i].orderStep.id
                                   => /\ loc.fillingTasks[k].endTime = FillingClockAt(pairs, i)
                                      /\ loc.fillingTasks[k].startTime
                                             = FillingClockAt(pairs, i)
                                                 - loc.fillingTasks[k].estimatedDuration
            /\ \A k \in 1..Len(loc.fillingTasks) : \A l \in 1..Len(loc.fillingTasks) :
                   loc.fillingTasks[k].orderProcessStepId # loc.fillingTasks[l].orderProcessStepId
                       => ~Overlap(loc.fillingTasks[k], loc.fillingTasks[l])

\* a backward pass that skipped its first step for its dependency, placed the
\* next one up to 17:00 and the one after it up to the start of that one
C23_Witness ==
    /\ FillingPassDone
    /\ LET pairs == fillingPairs(loc.sortedOrders)
       IN  \E i \in 1..Len(pairs) : \E j \in 1..Len(pairs) : \E l \in 1..Len(pairs) :
               /\ i < j /\ j < l
               /\ \E k \in FillingSkipOf(pairs[i]) : loc.issues[k].kind = "Dependency not met"
               /\ ~PlacedIn(loc.fillingTasks, pairs[i])
               /\ PlacedIn(loc.fillingTasks, pairs[j])
               /\ TasksOfPair(loc.fillingTasks, pairs[j])[1].endTime
                      = createDateTime(today, FillEndHour, 0)
               /\ PlacedIn(loc.fillingTasks, pairs[l])
               /\ TasksOfPair(loc.fillingTasks, pairs[l])[1].endTime
                      = TasksOfPair(loc.fillingTasks, pairs[j])[1].startTime
               /\ TasksOfPair(loc.fillingTasks, pairs[l])[1].startTime
                      < TasksOfPair(loc.fillingTasks, pairs[l])[1].endTime

\* a backward pass that placed a step up to 17:00, skipped the next one as
\* understaffed and placed the one after it up to the start of the first
FillingChainOverUnderstaffedStep ==
    /\ FillingPassDone
    /\ LET pairs == fillingPairs(loc.sortedOrders)
       IN  \E i \in 1..Len(pairs) : \E j \in 1..Len(pairs) : \E l \in 1..Len(pairs) :
               /\ i < j /\ j < l
               /\ PlacedIn(loc.fillingTasks, pairs[i])
               /\ \E k \in FillingSkipOf(pairs[j]) :
                      loc.issues[k].kind = "Insufficient skilled staff"
               /\ PlacedIn(loc.fillingTasks, pairs[l])
               /\ TasksOfPair(loc.fillingTasks, pairs[l])[1].endTime
                      = TasksOfPair(loc.fillingTasks, pairs[i])[1].startTime

\* the assignments of the run for one order step
TasksOfOrderStep(orderStepId) ==
    {k \in 1..Len(loc.tasks) : loc.tasks[k].orderProcessStepId = orderStepId}

\* C24: an order step with an assignment has exactly as many assignments as
\* its template's requiredEmployees, each for a different worker, all with the
\* same start and the same end; no step is staffed in part.
C24_PlacedStepFullyStaffed ==
    \A k \in 1..Len(loc.tasks) :
        LET mates == TasksOfOrderStep(loc.tasks[k].orderProcessStepId)
            processStep == getProcessStep(store, loc.tasks[k].processStepId)
        IN  /\ Cardinality(mates) = processStep.requiredEmployees
            /\ Cardinality({loc.tasks[l].employeeId : l \in mates}) = Cardinality(mates)
            /\ \A l \in mates :
                   /\ loc.tasks[l].startTime = loc.tasks[k].startTime
                   /\ loc.tasks[l].endTime = loc.tasks[k].endTime

\* a completed run with a step of two required workers placed for two
\* workers, and a step of one required worker placed for one although two
\* qualified workers were free
C24_Witness ==
    /\ CompletedRun
    /\ \E k \in 1..Len(result.tasks) :
           /\ getProcessStep(store, result.tasks[k].processStepId).requiredEmployees = 2
           /\ Cardinality(TasksOfOrderStep(result.tasks[k].orderProcessStepId)) = 2
    /\ LET pairs == preparationPairs(loc.sortedOrders)
       IN  \E i \in 1..Len(pairs) :
               /\ pairs[i].orderStep.processStep.requiredEmployees = 1
               /\ Len(MatchedForPreparation(pairs, i)) = 2
               /\ Cardinality(TasksOfOrderStep(pairs[i].orderStep.id)) = 1

\* C25: in a returned result every filling assignment of an order starts at or
\* after the end of every preparation assignment of that order.
C25_FillingAfterOwnPreparation ==
    Returned =>
        \A i \in 1..Len(result.tasks) : \A j \in 1..Len(result.tasks) :
            LET filling == result.tasks[i]
                preparation == result.tasks[j]
            IN  /\ IncludesFilling(filling.productionAreaId)
                /\ IncludesPrep(preparation.productionAreaId)
                /\ filling.orderId = preparation.orderId
                => filling.startTime >= preparation.endTime

\* the shift-assignment rows of a list of tasks
RowsOf(tasks) == [i \in 1..Len(tasks) |-> ShiftAssignmentOf(tasks[i])]

\* C26: a run for a date whose stored assignments are those of a completed
\* run for that date replaces them: when it completes, the assignments stored
\* for the date are exactly its tasks, each stored once with status
\* "scheduled".  (The run is executed on its target date.)
C26_RerunReplacesAssignments ==
    [][(/\ pc = "Persisting"
        /\ today = date
        /\ loc.tasks # <<>>
        /\ getShiftAssignments(store, date) = RowsOf(loc.tasks)
        /\ result'.outcome = "returned"
        /\ result'.error = "")
       => getShiftAssignments(store', date) = RowsOf(result'.tasks)]_vars

\* the phases of generateOptimalSchedule after its reads, in program order
PhaseOrder ==
    <<"Sequencing", "SchedulingPreparation", "SchedulingFilling", "Validating",
      "Recommending", "Persisting">>

\* C27: a run is single-pass.  The phases a run has entered are always the
\* first ones of Sequencing, SchedulingPreparation, SchedulingFilling,
\* Validating, Recommending, Persisting, each once, and a run that completed
\* normally has entered all of them, feasible or not.  The backward pass works
\* on the complete output of the forward pass, and only a run that has
\* validated, recommended and entered Persisting has stored assignments.
C27_PhasesInOrderOnce ==
    /\ Len(loc.trace) <= Len(PhaseOrder)
    /\ loc.trace = SubSeq(PhaseOrder, 1, Len(loc.trace))
    /\ CompletedRun => pc = "Done" /\ loc.trace = PhaseOrder
    /\ FillingPassDone =>
           /\ loc.preparationTasks
                  = schedulePreparationRooms(loc.sortedOrders, loc.availableEmployees,
                                             eng.processSteps, today).tasks
           /\ loc.fillingTasks
                  = scheduleFillingRoom(loc.sortedOrders, loc.availableEmployees,
                                        loc.preparationTasks, eng.processSteps, today).tasks
    /\ runs = 1 /\ store.shiftAssignments # <<>> =>
           \E i \in 1..Len(loc.trace) : loc.trace[i] = "Persisting"

\* a completed run that is not feasible and has stored its assignments
C27_Witness ==
    /\ CompletedRun
    /\ ~result.feasible
    /\ loc.trace = PhaseOrder
    /\ result.tasks # <<>>
    /\ runs = 1
    /\ store.shiftAssignments = RowsOf(result.tasks)

\* the kind of the production area a template belongs to ("" when it has none)
AreaKindOf(processStep) ==
    IF \E a \in 1..Len(store.productionAreas) :
           store.productionAreas[a].id = processStep.productionAreaId
    THEN store.productionAreas[CHOOSE a \in 1..Len(store.productionAreas) :
             store.productionAreas[a].id = processStep.productionAreaId].type
    ELSE ""

\* the result accounts for an order step: its assignments are in the tasks or
\* an issue names its step and its order
AccountedFor(order, orderStep) ==
    \/ \E k \in 1..Len(result.tasks) : result.tasks[k].orderProcessStepId = orderStep.id
    \/ \E k \in 1..Len(result.issues) :
           /\ result.issues[k].step = orderStep.processStep.name
           /\ result.issues[k].product = order.productName

\* C28: on normal completion every order step of an order of the date whose
\* template belongs to a production area of kind preparation or filling has
\* its assignments in the tasks or an issue naming it in the issues.
C28_EveryAreaStepAccountedFor ==
    CompletedRun =>
        \A o \in 1..Len(loc.orders) : \A s \in 1..Len(loc.orders[o].processSteps) :
            AreaKindOf(loc.orders[o].processSteps[s].processStep) \in {"preparation", "filling"}
                => AccountedFor(loc.orders[o], loc.orders[o].processSteps[s])

\* C29: the clocks of a run are anchored on its target date.  When the forward
\* pass places anything its first assignment starts at 06:00 of the target
\* date, and when the backward pass places anything its last assignment ends
\* at 17:00 of the target date, whatever the day on which the run is executed.
C29_ClocksOnTargetDate ==
    /\ loc.preparationTasks # <<>> =>
           \E i \in 1..Len(loc.preparationTasks) :
               /\ loc.preparationTasks[i].startTime = createDateTime(date, PrepStartHour, 0)
               /\ \A j \in 1..Len(loc.preparationTasks) :
                      loc.preparationTasks[j].startTime >= loc.preparationTasks[i].startTime
    /\ loc.fillingTasks # <<>> =>
           \E i \in 1..Len(loc.fillingTasks) :
               /\ loc.fillingTasks[i].endTime = createDateTime(date, FillEndHour, 0)
               /\ \A j \in 1..Len(loc.fillingTasks) :
                      loc.fillingTasks[j].endTime <= loc.fillingTasks[i].endTime

\* C30: a run whose saveShiftAssignments fails in a createShiftAssignment call
\* returns the error result (not feasible, no tasks, one issue) and leaves the
\* store's assignments as they were before the run, which writes to the store
\* in this phase only.
C30_FailedPersistLeavesStore ==
    [][(pc = "Persisting" /\ result'.error = "createShiftAssignment failed")
       => /\ result' = CaughtResult("createShiftAssignment failed")
          /\ store'.shiftAssignments = store.shiftAssignments]_vars

====
